---- MODULE Spec2Model ----
(***************************************************************************)
(* Model of the Retell sync bridge (src/retell-sync-bridge.mjs): the run   *)
(* state store, the dispatch timeout clamp and the HTTP request handler    *)
(* with its timers, background state updates and follow-up loop.           *)
(* The scheduled check-in script (src/scripts/retell-scheduled-checkins    *)
(* .mjs) is modelled in a section of its own.                              *)
(***************************************************************************)
EXTENDS Integers, Sequences, FiniteSets, TLC

VARIABLES
  now,          \* Date.now(), as a logical clock
  stateFile,    \* data/retell-sync-state.json: [kind, runs]
  calls,        \* number of store calls made so far (store specification)
  tmArgs,       \* args.timeoutMs of the request under the clamp: [present, val]
  tmWait,       \* the effective wait computed from tmArgs (0: not computed yet)
  tmRace,       \* the delay of the local race timer set for that wait (0: not set yet)
  agentFilter,  \* RETELL_AGENT_ID is configured
  callOngoing, activeCallId, lastCallStartedAtMs,   \* call-session flags
  req,          \* per handler: the inbound request
  pc,           \* per handler: where the handler is suspended
  resps,        \* per handler: the HTTP responses written, in order
  flowRunId,    \* per handler: runId of the dispatch (0: none yet)
  workingNotified, workingTimer,  \* per handler: the locals of the same name
  clk,          \* per handler: time since startedAt, in classes (see Tick)
  waitRes,      \* per handler: wait.status ("": the primary wait has not resolved)
  assistantText,\* per handler: the history fetch found text
  snap,         \* per handler: the runs returned by the awaited readState
  item,         \* per handler: the record a status query reports on
  upd,          \* per handler: the un-awaited recordRunUpdate of the dispatch
  fu, fuSnap, fuPatch, polls,     \* per handler: the follow-up loop
  agentReqs,    \* per handler: number of `agent` requests issued
  waitReqs,     \* per handler: timeoutMs of the agent.wait requests issued
  histReqs,     \* per handler: number of history fetches issued
  notifs,       \* per handler: kinds of the sendStatusNotification calls, in order
  writes,       \* per handler: number of writeState calls
  memLog,       \* per handler: number of appendToDailyMemory calls
  lastCall,     \* the store call made last (store specification): [op, runId]
  msgBase,      \* a message in plain form: lower case, words one space apart
  msgText,      \* the same message as received, a sequence of characters
  msgIsStatus,  \* isStatusQuery(msgText): "yes" or "no" ("": not classified yet)
  ctIn, ctMax,  \* chunkText's arguments text and maxChars
  ctPhase,      \* chunkText: "idle", "loop" (in the while loop) or "done" (returned)
  remaining,    \* chunkText's local of the same name
  chunks,       \* chunkText's local of the same name, returned at the end
  payloads,     \* the messages sendStatusNotification makes of the chunks
  notifyCfg,    \* STATUS_NOTIFY_ENABLED and STATUS_NOTIFY_TO: [enabled, to]
  cachedNotifyTarget, cachedNotifyTargetAtMs,   \* the globals of the same name
  ntask,        \* per handler: its sendStatusNotification calls, in order (see Task)
  listReqs,     \* number of sessions.list requests issued
  sendReqs,     \* number of send requests issued
  ckDate, ckAt, \* check-in script: the local date and the instant of the day (see Instants)
  ckFile,       \* data/retell-scheduled-checkins.json: [kind, slots]
  ckPlaced,     \* the calls placed through create-phone-call, in order
  ckWrites,     \* number of writes of the check-in state file
  ckRuns,       \* number of runs of the check-in script so far
  ckLast        \* the flags of the last run: [dryRun, force]

storeVars == <<now, stateFile, calls, lastCall>>
clampVars == <<tmArgs, tmWait, tmRace>>
chunkVars == <<ctIn, ctMax, ctPhase, remaining, chunks, payloads>>
textVars  == <<msgBase, msgText, msgIsStatus, chunkVars>>
notifyVars == <<notifyCfg, cachedNotifyTarget, cachedNotifyTargetAtMs, ntask, listReqs, sendReqs>>
flagVars  == <<callOngoing, activeCallId, lastCallStartedAtMs>>
flowVars  == <<req, pc, resps, flowRunId, workingNotified, workingTimer, clk, waitRes, assistantText,
               snap, item, upd, fu, fuSnap, fuPatch, polls>>
logVars   == <<agentReqs, waitReqs, histReqs, notifs, writes, memLog>>
checkinVars == <<ckDate, ckAt, ckFile, ckPlaced, ckWrites, ckRuns, ckLast>>
vars == <<storeVars, clampVars, textVars, notifyVars, agentFilter, checkinVars, flagVars, flowVars, logVars>>

(***************************************************************************)
(* Scheduled check-in calls (src/scripts/retell-scheduled-checkins.mjs)    *)
(***************************************************************************)

\* The daily slots, in the order of the script's table.
SLOTS ==
  << [key |-> "15:00", hour |-> 15, minute |-> 0],
     [key |-> "21:00", hour |-> 21, minute |-> 0] >>

SlotKeys == { SLOTS[k].key : k \in 1..Len(SLOTS) }

\* The local times of day at which the script is run, <<hour, minute>>, in
\* the order in which the clock passes them.
Instants ==
  << <<14, 59>>, <<15, 0>>, <<15, 1>>, <<15, 3>>, <<16, 0>>, <<21, 0>>, <<21, 2>> >>

\* nowParts(TZ): the local date, hour and minute.
nowParts == [date |-> ckDate, hour |-> Instants[ckAt][1], minute |-> Instants[ckAt][2]]

\* The values of --window-min on the command line (absent, or a number).
WindowArgs ==
  { [present |-> FALSE, val |-> 0] } \cup { [present |-> TRUE, val |-> v] : v \in {0, 2, 11} }

\* The command lines of the runs: --dry-run, --force, --window-min. Runs
\* that place calls with --force are left out.
CheckinArgs ==
  { a \in [dryRun : BOOLEAN, force : BOOLEAN, window : WindowArgs] : a.force => a.dryRun }

\* parseArgs: windowMin is 1 by default and when the value is out of 0..10.
windowMin(args) ==
  IF ~args.window.present THEN 1
  ELSE IF args.window.val < 0 \/ args.window.val > 10 THEN 1
  ELSE args.window.val

\* No slot has a date recorded (date 0: none).
NoSlots == [key \in SlotKeys |-> 0]

\* loadState: the parsed file, { slots: {} } when it cannot be read or parsed.
loadState(file) == IF file.kind = "ok" THEN file.slots ELSE NoSlots

\* saveState: mkdirSync and writeFileSync; when one of them throws the file
\* is as before.
saveState(file, state, written) ==
  IF written THEN [kind |-> "ok", slots |-> state] ELSE file

shouldCall(nowp, slot, state, window, force) ==
  IF force THEN TRUE
  ELSE LET withinWindow == /\ nowp.hour = slot.hour
                           /\ nowp.minute >= slot.minute
                           /\ nowp.minute <= slot.minute + window
       IN withinWindow /\ state[slot.key] # nowp.date

\* The loop of main over the due slots, from slot k on. acc holds the state
\* object, the file, the calls placed, the writes made and whether the run
\* is still going (no exception yet). due was computed before the loop;
\* placedOk and written say whether create-phone-call succeeds and whether
\* saveState does, in this run.
RECURSIVE CallDueSlots(_, _, _, _, _, _, _)
CallDueSlots(k, acc, due, args, nowp, placedOk, written) ==
  IF k > Len(SLOTS) \/ ~acc.going THEN acc
  ELSE LET slot == SLOTS[k]
           call == [slot |-> slot.key, date |-> nowp.date, hour |-> nowp.hour,
                    minute |-> nowp.minute, window |-> windowMin(args)]
           state2 == [acc.state EXCEPT ![slot.key] = nowp.date]
       IN IF slot.key \notin due \/ args.dryRun
            THEN CallDueSlots(k + 1, acc, due, args, nowp, placedOk, written)
          ELSE IF ~placedOk
            THEN [acc EXCEPT !.going = FALSE]
          ELSE IF ~written
            THEN [acc EXCEPT !.state = state2, !.placed = Append(@, call), !.going = FALSE]
          ELSE CallDueSlots(k + 1,
                 [acc EXCEPT !.state = state2, !.placed = Append(@, call),
                             !.file = saveState(@, state2, TRUE), !.writes = @ + 1],
                 due, args, nowp, placedOk, written)

\* The check-in script has not run: no state file, no call.
CheckinIdle ==
  /\ ckDate = 1 /\ ckAt = 1
  /\ ckFile = [kind |-> "missing", slots |-> NoSlots]
  /\ ckPlaced = <<>> /\ ckWrites = 0 /\ ckRuns = 0
  /\ ckLast = [dryRun |-> FALSE, force |-> FALSE]

(***************************************************************************)
(* State store                                                             *)
(***************************************************************************)

\* The store keeps at most this many run records.
Cap == 50

\* A run record. A time of 0 stands for an absent field.
RunItem(runId, startedAtMs, t) ==
  [runId |-> runId, status |-> "running", startedAtMs |-> IF startedAtMs # 0 THEN startedAtMs ELSE t,
   updatedAtMs |-> t, completedAtMs |-> 0]

\* A patch as the handler builds it: a status and, optionally, completedAtMs.
Patch(status, completedAtMs) == [status |-> status, completedAtMs |-> completedAtMs]

\* A merge that keeps nothing of the record but its runId.
MergePatchReplacing(r, patch, t) ==
  [runId |-> r.runId, status |-> patch.status, startedAtMs |-> 0,
   updatedAtMs |-> t, completedAtMs |-> patch.completedAtMs]

\* { ...r, ...patch, updatedAtMs: Date.now() }
MergePatch(r, patch, t) ==
  [r EXCEPT !.status = patch.status,
            !.completedAtMs = IF patch.completedAtMs # 0 THEN patch.completedAtMs ELSE @,
            !.updatedAtMs = t]

\* { runId, updatedAtMs: Date.now(), ...patch }
MinimalItem(runId, patch, t) ==
  [runId |-> runId, status |-> patch.status, startedAtMs |-> 0,
   updatedAtMs |-> t, completedAtMs |-> patch.completedAtMs]

\* A slice that keeps the whole array.
SliceAll(s, n) == s

\* Array.prototype.slice(0, n)
Slice(s, n) == IF Len(s) <= n THEN s ELSE SubSeq(s, 1, n)

\* A filter that keeps the records of the run being started.
FilterKeepSame(s, runId) ==
  LET Keep(r) == r.runId # 0 IN SelectSeq(s, Keep)

\* state.runs.filter((r) => r?.runId && r.runId !== runId)
Filter(s, runId) ==
  LET Keep(r) == r.runId # 0 /\ r.runId # runId IN SelectSeq(s, Keep)

\* readState: a missing, unreadable or malformed file reads as no runs.
ReadState(file) == IF file.kind = "ok" THEN file.runs ELSE <<>>

\* writeState: the whole document is rewritten.
WriteState(file, runs) == IF file.kind = "unusable" THEN file ELSE [kind |-> "ok", runs |-> runs]

\* A failed write reaches the caller of writeState.
WriteEscapesOnFailure(file) == file.kind = "unusable"

\* catch (err) { console.error('state_write_failed', err); }: it never does.
WriteEscapes(file) == FALSE

\* A recordRunStart that puts the new record last.
RecordRunStartAlone(runs, runId, startedAtMs, t) == <<RunItem(runId, startedAtMs, t)>>

RecordRunStartAppending(runs, runId, startedAtMs, t) ==
  Slice(Filter(runs, runId) \o <<RunItem(runId, startedAtMs, t)>>, Cap)

\* recordRunStart, from the list it read to the list it writes.
RecordRunStart(runs, runId, startedAtMs, t) ==
  Slice(<<RunItem(runId, startedAtMs, t)>> \o Filter(runs, runId), Cap)

HasRun(runs, runId) == \E k \in 1..Len(runs) : runs[k].runId = runId

\* recordRunUpdate, from the list it read to the list it writes.
RecordRunUpdate(runs, runId, patch, t) ==
  IF HasRun(runs, runId)
  THEN [k \in 1..Len(runs) |->
          IF runs[k].runId = runId THEN MergePatch(runs[k], patch, t) ELSE runs[k]]
  ELSE Slice(<<MinimalItem(runId, patch, t)>> \o runs, Cap)

(***************************************************************************)
(* Dispatch timeout clamp                                                  *)
(***************************************************************************)

Min(a, b) == IF a <= b THEN a ELSE b
Max(a, b) == IF a >= b THEN a ELSE b

\* args.timeoutMs || 12_000 : an absent value and 0 are both falsy.
RequestedTimeout(a) == IF a.present /\ a.val # 0 THEN a.val ELSE 12000

\* A clamp without its lower limit.
EffectiveTimeoutNoFloor(a) == Min(25000, RequestedTimeout(a))

\* Math.min(25_000, Math.max(1_000, Number(args.timeoutMs || 12_000)))
EffectiveTimeout(a) == Min(25000, Max(1000, RequestedTimeout(a)))

\* The local race timer: timeoutMs + 250.
RaceTimer(a) == EffectiveTimeout(a) + 250

(***************************************************************************)
(* Text: a text is a sequence of characters                                *)
(***************************************************************************)

\* The characters \r, \n and \t of the first replacement of oneLine.
LineBreaks == {"\r", "\n", "\t"}

\* The characters \s matches, among those of the model.
Whitespace == {" ", "\r", "\n", "\t"}

\* The positions of s, in order.
Positions(s) == [k \in 1..Len(s) |-> k]

\* String.prototype.replace(/[\r\n\t]+/g, ' ')
ReplaceLineBreaks(s) ==
  LET First(k) == s[k] \notin LineBreaks \/ k = 1 \/ s[k - 1] \notin LineBreaks
      kept == SelectSeq(Positions(s), First)
  IN [j \in 1..Len(kept) |-> IF s[kept[j]] \in LineBreaks THEN " " ELSE s[kept[j]]]

\* String.prototype.replace(/\s{2,}/g, ' ')
CollapseWhitespace(s) ==
  LET First(k) == s[k] \notin Whitespace \/ k = 1 \/ s[k - 1] \notin Whitespace
      Run(k) == s[k] \in Whitespace /\ k < Len(s) /\ s[k + 1] \in Whitespace
      kept == SelectSeq(Positions(s), First)
  IN [j \in 1..Len(kept) |-> IF Run(kept[j]) THEN " " ELSE s[kept[j]]]

\* String.prototype.trimStart, trimEnd and trim
TrimStart(s) ==
  IF \A k \in 1..Len(s) : s[k] \in Whitespace THEN <<>>
  ELSE SubSeq(s, CHOOSE k \in 1..Len(s) :
                   s[k] \notin Whitespace /\ \A j \in 1..(k - 1) : s[j] \in Whitespace, Len(s))

TrimEnd(s) ==
  IF \A k \in 1..Len(s) : s[k] \in Whitespace THEN <<>>
  ELSE SubSeq(s, 1, CHOOSE k \in 1..Len(s) :
                      s[k] \notin Whitespace /\ \A j \in (k + 1)..Len(s) : s[j] \in Whitespace)

Trim(s) == TrimEnd(TrimStart(s))

\* A oneLine that only trims.
oneLineTrimOnly(s) == Trim(s)

\* oneLine
oneLine(s) == Trim(CollapseWhitespace(ReplaceLineBreaks(s)))

\* The capital letters and their lower case.
Capitals ==
  [c \in {"A", "B", "C", "D", "E", "F", "G", "H", "I", "J", "K", "L", "M",
          "N", "O", "P", "Q", "R", "S", "T", "U", "V", "W", "X", "Y", "Z"} |->
     CASE c = "A" -> "a" [] c = "B" -> "b" [] c = "C" -> "c" [] c = "D" -> "d"
       [] c = "E" -> "e" [] c = "F" -> "f" [] c = "G" -> "g" [] c = "H" -> "h"
       [] c = "I" -> "i" [] c = "J" -> "j" [] c = "K" -> "k" [] c = "L" -> "l"
       [] c = "M" -> "m" [] c = "N" -> "n" [] c = "O" -> "o" [] c = "P" -> "p"
       [] c = "Q" -> "q" [] c = "R" -> "r" [] c = "S" -> "s" [] c = "T" -> "t"
       [] c = "U" -> "u" [] c = "V" -> "v" [] c = "W" -> "w" [] c = "X" -> "x"
       [] c = "Y" -> "y" [] c = "Z" -> "z"]

\* String.prototype.toLowerCase and toUpperCase
ToLowerCase(s) == [k \in 1..Len(s) |-> IF s[k] \in DOMAIN Capitals THEN Capitals[s[k]] ELSE s[k]]

ToUpperCase(s) ==
  [k \in 1..Len(s) |->
     IF \E c \in DOMAIN Capitals : Capitals[c] = s[k]
     THEN CHOOSE c \in DOMAIN Capitals : Capitals[c] = s[k] ELSE s[k]]

\* String.prototype.startsWith and includes
StartsWith(s, p) == Len(s) >= Len(p) /\ SubSeq(s, 1, Len(p)) = p

Includes(s, p) == \E k \in 1..(Len(s) - Len(p) + 1) : SubSeq(s, k, k + Len(p) - 1) = p

\* The character U+2026 that clampText appends.
Ellipsis == "ELLIPSIS"

\* clampText
clampText(text, maxChars) ==
  IF Len(text) <= maxChars THEN text
  ELSE SubSeq(text, 1, Max(0, maxChars - 1)) \o <<Ellipsis>>

\* String.prototype.lastIndexOf: the last index, from 0, at which p occurs in
\* s, or -1.
LastIndexOf(s, p) ==
  LET at == { k \in 1..(Len(s) - Len(p) + 1) : SubSeq(s, k, k + Len(p) - 1) = p }
  IN IF at = {} THEN 0 - 1 ELSE (CHOOSE k \in at : \A j \in at : j <= k) - 1

\* String.prototype.slice(from, to) and slice(from), for 0 <= from <= to
Slice2(s, from, to) == SubSeq(s, from + 1, Min(to, Len(s)))
SliceFrom(s, from) == SubSeq(s, from + 1, Len(s))

\* chunkText: where the while loop cuts `remaining`.
Cut(rem, maxChars) ==
  LET window == Slice2(rem, 0, maxChars + 1)
      paragraphIdx == LastIndexOf(window, <<"\n", "\n">>)
      lineIdx == LastIndexOf(window, <<"\n">>)
      spaceIdx == LastIndexOf(window, <<" ">>)
  IN IF 2 * paragraphIdx > maxChars THEN paragraphIdx + 2
     ELSE IF 5 * lineIdx > 3 * maxChars THEN lineIdx + 1
     ELSE IF 5 * spaceIdx > 4 * maxChars THEN spaceIdx + 1
     ELSE maxChars

\* The decimal digits of a number.
RECURSIVE Decimal(_)
Decimal(n) ==
  LET digit == <<"0", "1", "2", "3", "4", "5", "6", "7", "8", "9">>[(n % 10) + 1]
  IN IF n < 10 THEN <<digit>> ELSE Decimal(n \div 10) \o <<digit>>

\* sendStatusNotification: the prefix `(i/n) ` of chunk i of n.
Prefix(i, n) ==
  IF n > 1 THEN <<"(">> \o Decimal(i) \o <<"/">> \o Decimal(n) \o <<")", " ">> ELSE <<>>

\* sendStatusNotification: the payloads sent for the chunks.
Payloads(parts, maxChars) ==
  [i \in 1..Len(parts) |-> clampText(Prefix(i, Len(parts)) \o parts[i], maxChars)]

\* The literals of isStatusQuery.
LitCheckStatus == <<"c", "h", "e", "c", "k", " ", "s", "t", "a", "t", "u", "s">>
LitStatus == <<"s", "t", "a", "t", "u", "s">>
LitJobStatus == <<"j", "o", "b", " ", "s", "t", "a", "t", "u", "s">>
LitStatusUpdate == <<"s", "t", "a", "t", "u", "s", " ", "u", "p", "d", "a", "t", "e">>
LitAreYouDone == <<"a", "r", "e", " ", "y", "o", "u", " ", "d", "o", "n", "e">>

\* isStatusQuery
isStatusQuery(message) ==
  LET s == ToLowerCase(oneLine(message))
  IN \/ s = LitCheckStatus
     \/ StartsWith(s, LitCheckStatus \o <<" ">>)
     \/ s = LitStatus
     \/ StartsWith(s, LitStatus \o <<" ">>)
     \/ StartsWith(s, LitJobStatus)
     \/ Includes(s, LitStatusUpdate)
     \/ Includes(s, LitAreYouDone)

(***************************************************************************)
(* Status notifications                                                    *)
(***************************************************************************)

\* The notification settings of the environment: disabled, an override
\* address (STATUS_NOTIFY_TO), or the session's last delivery target.
NotifyCfgs ==
  { [enabled |-> FALSE, to |-> ""], [enabled |-> TRUE, to |-> "override"], [enabled |-> TRUE, to |-> ""] }

\* The settings when the environment sets none.
DefaultCfg == [enabled |-> TRUE, to |-> ""]

\* A resolved target is kept for this long.
CacheTtlMs == 60000

\* if (cachedNotifyTarget && now - cachedNotifyTargetAtMs < 60_000)
CacheHit(target, at, t) == target # "null" /\ t - at < CacheTtlMs

\* One call of sendStatusNotification. phase: "list" (awaiting sessions.list),
\* "send" (awaiting a send) or "off" (returned); at: the `now` resolveNotifyTarget
\* took; sent: send requests issued; result, once off: "none" (no target),
\* "sent", "logged" (a failure, caught) or "escaped" (a failure, raised to
\* the caller); freshNull: at the call a null target was cached less than
\* 60 s before; listed: the call issued a sessions.list request; stored: when
\* the call stored a target with an address in the cache (0: it did not).
Task(phase, at, sent, result, freshNull, listed, stored) ==
  [phase |-> phase, at |-> at, sent |-> sent, result |-> result,
   freshNull |-> freshNull, listed |-> listed, stored |-> stored]

\* The notification state a call of handler i works on.
NState(i) ==
  [target |-> cachedNotifyTarget, at |-> cachedNotifyTargetAtMs, tasks |-> ntask[i],
   listReqs |-> listReqs, sendReqs |-> sendReqs]

\* sendStatusNotification and resolveNotifyTarget up to their first awaited
\* request, at time t.
CallOne(st, cfg, t) ==
  LET freshNull == st.target = "null" /\ st.at # 0 /\ t - st.at < CacheTtlMs
      sending(stored) == Task("send", t, 1, "", freshNull, FALSE, stored)
  IN IF ~cfg.enabled
     THEN [st EXCEPT !.tasks = Append(@, Task("off", 0, 0, "none", freshNull, FALSE, 0))]
     ELSE IF CacheHit(st.target, st.at, t)
     THEN [st EXCEPT !.tasks = Append(@, sending(0)), !.sendReqs = @ + 1]
     ELSE IF cfg.to # ""
     THEN [st EXCEPT !.target = cfg.to, !.at = t,
                     !.tasks = Append(@, sending(t)), !.sendReqs = @ + 1]
     ELSE [st EXCEPT !.tasks = Append(@, Task("list", t, 0, "", freshNull, TRUE, 0)),
                     !.listReqs = @ + 1]

\* n calls in a row.
RECURSIVE CallMany(_, _, _, _)
CallMany(st, cfg, n, t) ==
  IF n = 0 THEN st ELSE CallOne(CallMany(st, cfg, n - 1, t), cfg, t)

\* Handler i calls sendStatusNotification for each of the kinds, in order.
Notify(i, kinds) ==
  LET st == CallMany(NState(i), notifyCfg, Len(kinds), now)
  IN /\ notifs' = [notifs EXCEPT ![i] = @ \o kinds]
     /\ ntask' = [ntask EXCEPT ![i] = st.tasks]
     /\ cachedNotifyTarget' = st.target
     /\ cachedNotifyTargetAtMs' = st.at
     /\ listReqs' = st.listReqs
     /\ sendReqs' = st.sendReqs
     /\ UNCHANGED notifyCfg

(***************************************************************************)
(* The handlers: two overlapping requests                                  *)
(***************************************************************************)

Slots == {1, 2}

NoItem == [runId |-> 0, status |-> "", startedAtMs |-> 0, updatedAtMs |-> 0, completedAtMs |-> 0]
NoUpdate == [phase |-> "none", patch |-> Patch("", 0), snap |-> <<>>]
NoRequest == [method |-> "", token |-> "", body |-> "", path |-> "", event |-> "",
              callId |-> "", agent |-> "", msg |-> "", timeoutMs |-> [present |-> FALSE, val |-> 0]]

\* No notification was asked for yet, and no target is cached.
NotifyIdle ==
  /\ cachedNotifyTarget = "null"
  /\ cachedNotifyTargetAtMs = 0
  /\ ntask = [i \in Slots |-> <<>>]
  /\ listReqs = 0
  /\ sendReqs = 0

\* The handlers before any request has arrived.
FlowsIdle ==
  /\ req = [i \in Slots |-> NoRequest]
  /\ pc = [i \in Slots |-> "new"]
  /\ resps = [i \in Slots |-> <<>>]
  /\ flowRunId = [i \in Slots |-> 0]
  /\ workingNotified = [i \in Slots |-> FALSE]
  /\ workingTimer = [i \in Slots |-> "none"]
  /\ clk = [i \in Slots |-> 0]
  /\ waitRes = [i \in Slots |-> ""]
  /\ assistantText = [i \in Slots |-> ""]
  /\ snap = [i \in Slots |-> <<>>]
  /\ item = [i \in Slots |-> NoItem]
  /\ upd = [i \in Slots |-> NoUpdate]
  /\ fu = [i \in Slots |-> "none"]
  /\ fuSnap = [i \in Slots |-> <<>>]
  /\ fuPatch = [i \in Slots |-> Patch("", 0)]
  /\ polls = [i \in Slots |-> 0]
  /\ agentReqs = [i \in Slots |-> 0]
  /\ waitReqs = [i \in Slots |-> <<>>]
  /\ histReqs = [i \in Slots |-> 0]
  /\ notifs = [i \in Slots |-> <<>>]
  /\ writes = [i \in Slots |-> 0]
  /\ memLog = [i \in Slots |-> 0]
  /\ NotifyIdle

FlagsIdle ==
  /\ agentFilter = FALSE
  /\ CheckinIdle
  /\ notifyCfg = DefaultCfg
  /\ callOngoing = FALSE
  /\ activeCallId = ""
  /\ lastCallStartedAtMs = 0

ClampIdle == tmArgs = [present |-> FALSE, val |-> 0] /\ tmWait = 0 /\ tmRace = 0

ChunkIdle ==
  /\ ctIn = <<>> /\ ctMax = 0 /\ ctPhase = "idle"
  /\ remaining = <<>> /\ chunks = <<>> /\ payloads = <<>>

TextIdle == msgBase = <<>> /\ msgText = <<>> /\ msgIsStatus = "" /\ ChunkIdle

\* The state file as the process can find it at start: no file, a file that
\* does not parse, or a document with no runs.
FreshFiles ==
  { [kind |-> "missing", runs |-> <<>>], [kind |-> "malformed", runs |-> <<>>],
    [kind |-> "ok", runs |-> <<>>] }

\* A state file whose every read and write fails (its directory cannot be
\* made or entered).
Unusable == [kind |-> "unusable", runs |-> <<>>]

(***************************************************************************)
(* Specification of the store: sequences of recordRunStart and             *)
(* recordRunUpdate calls, each run to completion.                          *)
(***************************************************************************)

\* Number of single calls explored after the optional burst.
MaxCalls == 3

\* The run ids the single calls use: the oldest and the newest of the burst
\* and two that the burst has not used.
StoreIds == {1} \cup ((Cap - 1)..(Cap + 1))

StorePatches(t) == { Patch("done", t), Patch("running", 0), Patch("failed", 0) }

\* A burst of dispatches starts at most this many runs in one step.
BurstSize == 7

\* The list after n more runs, with the next unused ids, were started in order.
RECURSIVE Burst(_, _, _)
Burst(runs, n, t) ==
  IF n = 0 THEN runs ELSE RecordRunStart(Burst(runs, n - 1, t), Len(runs) + n, t, t)

InitStore ==
  /\ now = 1
  /\ stateFile \in FreshFiles
  /\ calls = 0
  /\ lastCall = [op |-> "none", runId |-> 0]
  /\ ClampIdle /\ TextIdle /\ FlagsIdle /\ FlowsIdle

\* Dispatches in a row, each calling recordRunStart with a new runId, until
\* the store holds Cap - 1 records.
StoreBurst ==
  LET runs == ReadState(stateFile)
      n == Min(BurstSize, Cap - 1 - Len(runs))
  IN /\ calls = 0
     /\ n > 0
     /\ stateFile' = WriteState(stateFile, Burst(runs, n, now))
     /\ lastCall' = [op |-> "burst", runId |-> Len(runs) + n]
     /\ UNCHANGED <<now, calls, clampVars, textVars, notifyVars, agentFilter, checkinVars, flagVars, flowVars, logVars>>

\* The single calls are made on a store whose bursts, if any, are over.
BurstOver == lastCall.op # "burst" \/ Len(ReadState(stateFile)) = Cap - 1

StoreStart(id) ==
  /\ calls < MaxCalls
  /\ BurstOver
  /\ now' = now + 1
  /\ calls' = calls + 1
  /\ stateFile' = WriteState(stateFile, RecordRunStart(ReadState(stateFile), id, now, now'))
  /\ lastCall' = [op |-> "start", runId |-> id]
  /\ UNCHANGED <<clampVars, textVars, notifyVars, agentFilter, checkinVars, flagVars, flowVars, logVars>>

StoreUpdate(id, patch) ==
  /\ calls < MaxCalls
  /\ BurstOver
  /\ now' = now + 1
  /\ calls' = calls + 1
  /\ stateFile' = WriteState(stateFile, RecordRunUpdate(ReadState(stateFile), id, patch, now'))
  /\ lastCall' = [op |-> "update", runId |-> id]
  /\ upd' = [upd EXCEPT ![1] = [phase |-> "done", patch |-> patch, snap |-> <<>>]]
  /\ UNCHANGED <<clampVars, textVars, notifyVars, agentFilter, checkinVars, flagVars, logVars, req, pc, resps,
                 flowRunId, workingNotified, workingTimer, clk, waitRes, assistantText, snap, item,
                 fu, fuSnap, fuPatch, polls>>

NextStore ==
  \/ StoreBurst
  \/ \E id \in StoreIds : StoreStart(id)
  \/ \E id \in StoreIds : \E patch \in StorePatches(now + 1) : StoreUpdate(id, patch)

SpecStore == InitStore /\ [][NextStore]_vars

(***************************************************************************)
(* Specification of the clamp: one request's timeoutMs and its wait        *)
(***************************************************************************)

\* args.timeoutMs ranges over the multiples of 500 up to this many, of
\* either sign, and over the values next to the clamp's limits.
MaxTimeoutK == 60

TimeoutVals ==
  { 500 * k : k \in (0 - MaxTimeoutK)..MaxTimeoutK }
    \cup { 1, 999, 1001, 24999, 25001, 100000 }

TimeoutArgs ==
  { [present |-> TRUE, val |-> v] : v \in TimeoutVals } \cup { [present |-> FALSE, val |-> 0] }

InitClamp ==
  /\ tmArgs \in TimeoutArgs
  /\ tmWait = 0
  /\ tmRace = 0
  /\ now = 1 /\ stateFile = [kind |-> "missing", runs |-> <<>>] /\ calls = 0
  /\ lastCall = [op |-> "none", runId |-> 0]
  /\ TextIdle /\ FlagsIdle /\ FlowsIdle

ClampApply ==
  /\ tmWait = 0
  /\ tmWait' = EffectiveTimeout(tmArgs)
  /\ tmRace' = RaceTimer(tmArgs)
  /\ UNCHANGED <<tmArgs, storeVars, textVars, notifyVars, agentFilter, checkinVars, flagVars, flowVars, logVars>>

NextClamp == ClampApply

SpecClamp == InitClamp /\ [][NextClamp]_vars

(***************************************************************************)
(* Specification of the status-query detection: one message, classified    *)
(***************************************************************************)

\* The messages in plain form: the examples of the documentation and some
\* near misses.
PlainMessages ==
  { <<"c", "h", "e", "c", "k", " ", "s", "t", "a", "t", "u", "s">>,
    <<"s", "t", "a", "t", "u", "s">>,
    <<"j", "o", "b", " ", "s", "t", "a", "t", "u", "s", " ", "p", "l", "e", "a", "s", "e">>,
    <<"a", "r", "e", " ", "y", "o", "u", " ", "d", "o", "n", "e", "?">>,
    <<"p", "l", "e", "a", "s", "e", " ", "u", "p", "d", "a", "t", "e", " ", "t", "h", "e", " ", "d", "o", "c">>,
    <<"g", "i", "v", "e", " ", "m", "e", " ", "a", " ", "s", "t", "a", "t", "u", "s", " ", "u", "p", "d", "a", "t", "e">>,
    <<"s", "t", "a", "t", "u", "s", "e", "s">>,
    <<"c", "h", "e", "c", "k", " ", "t", "h", "e", " ", "s", "t", "a", "t", "u", "s">> }

\* The ways a message is written: as is, in capitals, or with a capital first.
Casings == {"plain", "capitals", "capitalised"}

\* What stands for each space of the plain form, and around the message.
Separators == { <<" ">>, <<" ", " ">>, <<"\t">>, <<"\n">>, <<"\r", "\n">>, <<" ", "\n", "\t", " ">> }
Paddings == { <<>>, <<" ">>, <<"\n", " ">> }

Cased(s, casing) ==
  CASE casing = "plain" -> s
    [] casing = "capitals" -> ToUpperCase(s)
    [] casing = "capitalised" -> ToUpperCase(SubSeq(s, 1, 1)) \o SubSeq(s, 2, Len(s))

\* s with sep for each of its spaces.
RECURSIVE Spaced(_, _)
Spaced(s, sep) ==
  IF s = <<>> THEN <<>>
  ELSE (IF Head(s) = " " THEN sep ELSE <<Head(s)>>) \o Spaced(Tail(s), sep)

Written(s, casing, sep, pad) == pad \o Spaced(Cased(s, casing), sep) \o pad

InitQuery ==
  /\ msgBase \in PlainMessages
  /\ \E casing \in Casings : \E sep \in Separators : \E pad \in Paddings :
       msgText = Written(msgBase, casing, sep, pad)
  /\ msgIsStatus = ""
  /\ ChunkIdle
  /\ now = 1 /\ stateFile = [kind |-> "missing", runs |-> <<>>] /\ calls = 0
  /\ lastCall = [op |-> "none", runId |-> 0]
  /\ ClampIdle /\ FlagsIdle /\ FlowsIdle

\* The handler classifies the message.
Classify ==
  /\ msgIsStatus = ""
  /\ msgIsStatus' = IF isStatusQuery(msgText) THEN "yes" ELSE "no"
  /\ UNCHANGED <<msgBase, msgText, chunkVars, storeVars, clampVars, notifyVars, agentFilter, checkinVars, flagVars,
                 flowVars, logVars>>

NextQuery == Classify

SpecQuery == InitQuery /\ [][NextQuery]_vars

(***************************************************************************)
(* Specification of chunkText: one text and one limit, chunked             *)
(***************************************************************************)

\* The texts are all the sequences of at most this many characters.
MaxTextLen == 6

\* maxChars ranges from 0 to this limit.
MaxLimit == 5

ChunkChars == {"a", " ", "\n"}

ChunkTexts == UNION { [1..n -> ChunkChars] : n \in 0..MaxTextLen }

InitChunk ==
  /\ ctIn \in ChunkTexts
  /\ ctMax \in 0..MaxLimit
  /\ ctPhase = "idle"
  /\ remaining = <<>> /\ chunks = <<>> /\ payloads = <<>>
  /\ msgBase = <<>> /\ msgText = <<>> /\ msgIsStatus = ""
  /\ now = 1 /\ stateFile = [kind |-> "missing", runs |-> <<>>] /\ calls = 0
  /\ lastCall = [op |-> "none", runId |-> 0]
  /\ ClampIdle /\ FlagsIdle /\ FlowsIdle

ChunkFrame == UNCHANGED <<ctIn, ctMax, msgBase, msgText, msgIsStatus, storeVars, clampVars,
                          notifyVars, agentFilter, checkinVars, flagVars, flowVars, logVars>>

\* chunkText up to its while loop: the early returns.
ChunkStart ==
  LET s == Trim(ctIn) IN
  /\ ctPhase = "idle"
  /\ IF s = <<>>
     THEN ctPhase' = "done" /\ chunks' = <<>> /\ remaining' = <<>>
     ELSE IF Len(s) <= ctMax
     THEN ctPhase' = "done" /\ chunks' = <<s>> /\ remaining' = <<>>
     ELSE ctPhase' = "loop" /\ chunks' = <<>> /\ remaining' = s
  /\ payloads' = Payloads(chunks', ctMax)
  /\ ChunkFrame

\* One iteration of the while loop.
ChunkStep ==
  LET cut == Cut(remaining, ctMax)
      part == TrimEnd(Slice2(remaining, 0, cut))
  IN /\ ctPhase = "loop"
     /\ Len(remaining) > ctMax
     /\ chunks' = IF part # <<>> THEN Append(chunks, part) ELSE chunks
     /\ remaining' = TrimStart(SliceFrom(remaining, cut))
     /\ UNCHANGED <<ctPhase, payloads>>
     /\ ChunkFrame

\* The loop is over: the rest is the last chunk, and the chunks are returned
\* to sendStatusNotification.
ChunkEnd ==
  /\ ctPhase = "loop"
  /\ Len(remaining) <= ctMax
  /\ chunks' = IF remaining # <<>> THEN Append(chunks, remaining) ELSE chunks
  /\ payloads' = Payloads(chunks', ctMax)
  /\ ctPhase' = "done"
  /\ UNCHANGED remaining
  /\ ChunkFrame

NextChunk == ChunkStart \/ ChunkStep \/ ChunkEnd

SpecChunk == InitChunk /\ [][NextChunk]_vars

(***************************************************************************)
(* The HTTP request handler                                                *)
(***************************************************************************)

Methods == {"POST", "GET"}
Tokens == {"good", "bad", "none"}       \* x-retell-token || ?token= against the secret
Bodies == {"json", "garbage"}
Paths == {"/retell/webhook", "/retell/sync", "/other"}
Events == {"call_started", "call_ended", "call_analyzed"}
CallIds == {"", "c1", "c2", "5"}       \* "5": call_id given as the JSON number 5
Agents == {"iris", "other", ""}         \* RETELL_AGENT_ID, when set, is "iris"
Msgs == {"", "status", "instr"}         \* no message, a status query, an instruction
DispatchTimeouts == { [present |-> FALSE, val |-> 0], [present |-> TRUE, val |-> 5000] }
WaitStatuses == {"ok", "timeout", "error", "none"}   \* "none": a reply without status
Texts == {"", "text"}                   \* what getLastAssistantText returns

Request(m, t, b, p, e, c, a, msg, tm) ==
  [method |-> m, token |-> t, body |-> b, path |-> p, event |-> e, callId |-> c,
   agent |-> a, msg |-> msg, timeoutMs |-> tm]

Absent == [present |-> FALSE, val |-> 0]

\* The requests the model sends: every combination of method, token, body
\* and path, and for a well-formed POST every webhook event and sync message.
Requests ==
  { Request(m, t, b, p, "", "", "", "", Absent) :
      m \in Methods, t \in Tokens, b \in Bodies, p \in Paths }
  \cup { Request("POST", "good", "json", "/retell/webhook", e, c, a, "", Absent) :
      e \in Events, c \in CallIds, a \in Agents }
  \cup { Request("POST", "good", "json", "/retell/sync", "", "", "", "status", Absent) }
  \cup { Request("POST", "good", "json", "/retell/sync", "", "", "", "instr", tm) :
      tm \in DispatchTimeouts }

\* A classifier that recognises no status query.
IsStatusQueryNever(msg) == FALSE

\* isStatusQuery, on the message classes of the model.
IsStatusQuery(msg) == msg = "status"

\* The chain of early returns without the token check.
RouteNoAuth(r) ==
  IF r.method # "POST" THEN "405"
  ELSE IF r.body # "json" THEN "400json"
  ELSE IF r.path = "/retell/webhook" THEN "webhook"
  ELSE IF r.path # "/retell/sync" THEN "404"
  ELSE IF r.msg = "" THEN "400msg"
  ELSE IF IsStatusQuery(r.msg) THEN "status"
  ELSE "dispatch"

RoutePathFirst(r) ==
  IF r.method # "POST" THEN "405"
  ELSE IF r.token # "good" THEN "401"
  ELSE IF r.path = "/retell/webhook" /\ r.body = "json" THEN "webhook"
  ELSE IF r.path # "/retell/sync" THEN "404"
  ELSE IF r.body # "json" THEN "400json"
  ELSE IF r.msg = "" THEN "400msg"
  ELSE IF IsStatusQuery(r.msg) THEN "status"
  ELSE "dispatch"

\* The handler's chain of early returns: which branch serves the request.
Route(r) ==
  IF r.method # "POST" THEN "405"
  ELSE IF r.token # "good" THEN "401"
  ELSE IF r.body # "json" THEN "400json"
  ELSE IF r.path = "/retell/webhook" THEN "webhook"
  ELSE IF r.path # "/retell/sync" THEN "404"
  ELSE IF r.msg = "" THEN "400msg"
  ELSE IF IsStatusQuery(r.msg) THEN "status"
  ELSE "dispatch"

RejectCode(route) ==
  CASE route = "405" -> 405 [] route = "401" -> 401 [] route = "404" -> 404 [] OTHER -> 400

RejectError(route) ==
  CASE route = "405" -> "method_not_allowed" [] route = "401" -> "unauthorized"
    [] route = "400json" -> "invalid_json" [] route = "404" -> "not_found"
    [] OTHER -> "missing_message"

Response(code, status, text) == [code |-> code, status |-> status, text |-> text]

\* A filter that lets events without agent id through.
WebhookIgnoredUnlessMissing(filter, agent) == filter /\ agent # "iris" /\ agent # ""

\* if (RETELL_AGENT_ID && agentId !== RETELL_AGENT_ID) return;
WebhookIgnored(filter, agent) == filter /\ agent # "iris"

CallEndClearsAlways(active, callId) == TRUE

\* if (!activeCallId || String(callId || '') === activeCallId)
CallEndClears(active, callId) == active = "" \/ callId = active

\* A request arrives and is answered by one of the early returns.
ArriveReject(i, r) ==
  /\ pc[i] = "new"
  /\ \A j \in Slots : j < i => pc[j] # "new"
  /\ Route(r) \in {"405", "401", "400json", "404", "400msg"}
  /\ req' = [req EXCEPT ![i] = r]
  /\ resps' = [resps EXCEPT ![i] = Append(@, Response(RejectCode(Route(r)), RejectError(Route(r)), ""))]
  /\ pc' = [pc EXCEPT ![i] = "done"]
  /\ UNCHANGED <<storeVars, clampVars, textVars, notifyVars, agentFilter, checkinVars, flagVars, logVars, flowRunId,
                 workingNotified, workingTimer, clk, waitRes, assistantText, snap, item, upd,
                 fu, fuSnap, fuPatch, polls>>

\* path.join(callDir, callId) (line 489) throws a TypeError for a call id
\* that is not a string; it is reached when the agent filter lets the event
\* through and the call id is truthy.
WebhookRaises(filter, r) == ~WebhookIgnored(filter, r.agent) /\ r.callId = "5"

\* POST /retell/webhook: replied to at once, then processed without suspension.
\* When the processing throws, the handler's catch (lines 700-703) calls
\* send(res, 500) on the response that was already ended: writeHead throws
\* and the rejection leaves the handler ("unhandled").
ArriveWebhook(i, r) ==
  LET ignored == WebhookIgnored(agentFilter, r.agent)
      started == ~ignored /\ r.event = "call_started"
      ended == ~ignored /\ r.event = "call_ended"
      clears == ended /\ CallEndClears(activeCallId, r.callId)
  IN /\ pc[i] = "new"
     /\ \A j \in Slots : j < i => pc[j] # "new"
     /\ Route(r) = "webhook"
     /\ req' = [req EXCEPT ![i] = r]
     /\ resps' = [resps EXCEPT ![i] = Append(@, Response(200, "", ""))]
     /\ callOngoing' = IF started THEN TRUE ELSE IF clears THEN FALSE ELSE callOngoing
     /\ activeCallId' = IF started THEN r.callId ELSE IF clears THEN "" ELSE activeCallId
     /\ lastCallStartedAtMs' = IF started THEN now ELSE lastCallStartedAtMs
     /\ Notify(i, IF started THEN <<"callStarted">> ELSE IF ended THEN <<"callEnded">> ELSE <<>>)
     /\ memLog' = [memLog EXCEPT ![i] = IF ignored THEN 0 ELSE 1]
     /\ pc' = [pc EXCEPT ![i] = IF WebhookRaises(agentFilter, r) THEN "unhandled" ELSE "done"]
     /\ UNCHANGED <<storeVars, clampVars, textVars, agentFilter, checkinVars, agentReqs, waitReqs, histReqs, writes,
                    flowRunId, workingNotified, workingTimer, clk, waitRes, assistantText, snap, item,
                    upd, fu, fuSnap, fuPatch, polls>>

\* POST /retell/sync with a status query: the handler awaits readState.
ArriveStatus(i, r) ==
  /\ pc[i] = "new"
  /\ \A j \in Slots : j < i => pc[j] # "new"
  /\ Route(r) = "status"
  /\ req' = [req EXCEPT ![i] = r]
  /\ pc' = [pc EXCEPT ![i] = "sqRead"]
  /\ UNCHANGED <<storeVars, clampVars, textVars, notifyVars, agentFilter, checkinVars, flagVars, logVars, resps, flowRunId,
                 workingNotified, workingTimer, clk, waitRes, assistantText, snap, item, upd,
                 fu, fuSnap, fuPatch, polls>>

\* POST /retell/sync with an instruction: the `agent` request is issued.
ArriveDispatch(i, r) ==
  /\ pc[i] = "new"
  /\ \A j \in Slots : j < i => pc[j] # "new"
  /\ Route(r) = "dispatch"
  /\ req' = [req EXCEPT ![i] = r]
  /\ agentReqs' = [agentReqs EXCEPT ![i] = @ + 1]
  /\ pc' = [pc EXCEPT ![i] = "agent"]
  /\ UNCHANGED <<storeVars, clampVars, textVars, notifyVars, agentFilter, checkinVars, flagVars, waitReqs, histReqs, notifs,
                 writes, memLog, resps, flowRunId, workingNotified, workingTimer, clk,
                 waitRes, assistantText, snap, item, upd, fu, fuSnap, fuPatch, polls>>

\* The `agent` request returns. runId is the backend's run id or, when the
\* backend gives none, the idempotency key: either way one no other dispatch
\* has. recordRunStart then reads the state file.
AgentAck(i) ==
  /\ pc[i] = "agent"
  /\ flowRunId' = [flowRunId EXCEPT ![i] = i]
  /\ snap' = [snap EXCEPT ![i] = ReadState(stateFile)]
  /\ pc' = [pc EXCEPT ![i] = "rsWrite"]
  /\ UNCHANGED <<storeVars, clampVars, textVars, notifyVars, agentFilter, checkinVars, flagVars, logVars, req, resps,
                 workingNotified, workingTimer, clk, waitRes, assistantText, item, upd,
                 fu, fuSnap, fuPatch, polls>>

\* An awaited collaborator request raises: the handler's catch answers 500.
Raise(i, at) ==
  /\ pc[i] = at
  /\ resps' = [resps EXCEPT ![i] = Append(@, Response(500, "internal_error", ""))]
  /\ pc' = [pc EXCEPT ![i] = "caught"]
  /\ UNCHANGED <<storeVars, clampVars, textVars, notifyVars, agentFilter, checkinVars, flagVars, logVars, req, flowRunId,
                 workingNotified, workingTimer, clk, waitRes, assistantText, snap, item, upd,
                 fu, fuSnap, fuPatch, polls>>

AgentRaise(i) == Raise(i, "agent")
WaitRaise(i) == Raise(i, "wait")
HistRaise(i) == Raise(i, "hist")
SqHistRaise(i) == Raise(i, "sqHist")

\* if (callOngoing) { workingNotified = true; ... } else { workingTimer = setTimeout(...) }
WorkingAtOnce(ongoing) == ongoing

\* recordRunStart writes the state file; the handler then decides on the
\* Working notice and issues the primary agent.wait.
RsWritten(i) ==
  /\ stateFile' = WriteState(stateFile, RecordRunStart(snap[i], flowRunId[i], now, now))
  /\ writes' = [writes EXCEPT ![i] = @ + 1]
  /\ workingNotified' = [workingNotified EXCEPT ![i] = WorkingAtOnce(callOngoing)]
  /\ Notify(i, IF WorkingAtOnce(callOngoing) THEN <<"working">> ELSE <<>>)
  /\ workingTimer' = [workingTimer EXCEPT ![i] = IF WorkingAtOnce(callOngoing) THEN "none" ELSE "armed"]
  /\ waitReqs' = [waitReqs EXCEPT ![i] = Append(@, EffectiveTimeout(req[i].timeoutMs))]
  /\ snap' = [snap EXCEPT ![i] = <<>>]
  /\ pc' = [pc EXCEPT ![i] = "wait"]
  /\ UNCHANGED <<now, calls, lastCall, clampVars, textVars, agentFilter, checkinVars, flagVars, agentReqs, histReqs,
                 memLog, req, resps, flowRunId, clk, waitRes, assistantText, item, upd,
                 fu, fuSnap, fuPatch, polls>>

RsWrite(i) ==
  /\ pc[i] = "rsWrite"
  /\ IF WriteEscapes(stateFile) THEN Raise(i, "rsWrite") ELSE RsWritten(i)

\* Time since startedAt, in classes: 0: under 1200 ms; 1: 1200 ms or more;
\* 2: the 1200 ms Working timer is due; 3: the race timer (timeoutMs + 250) is due.
ClkLimit(i) ==
  IF pc[i] = "wait" THEN 3
  ELSE IF pc[i] = "caught" /\ workingTimer[i] = "armed" THEN 2
  ELSE IF pc[i] \in {"agent", "rsWrite", "hist"} THEN 1
  ELSE 0

Tick(i) ==
  /\ clk[i] < ClkLimit(i)
  /\ clk' = [clk EXCEPT ![i] = @ + 1]
  /\ UNCHANGED <<storeVars, clampVars, textVars, notifyVars, agentFilter, checkinVars, flagVars, logVars, req, pc, resps,
                 flowRunId, workingNotified, workingTimer, waitRes, assistantText, snap, item, upd,
                 fu, fuSnap, fuPatch, polls>>

\* The 1200 ms timer fires, unless clearTimeout came first.
WorkingTimerFire(i) ==
  /\ workingTimer[i] = "armed"
  /\ clk[i] >= 2
  /\ workingTimer' = [workingTimer EXCEPT ![i] = "fired"]
  /\ workingNotified' = [workingNotified EXCEPT ![i] = TRUE]
  /\ Notify(i, <<"working">>)
  /\ UNCHANGED <<storeVars, clampVars, textVars, agentFilter, checkinVars, flagVars, agentReqs, waitReqs, histReqs,
                 writes, memLog, req, pc, resps, flowRunId, clk, waitRes, assistantText, snap, item,
                 upd, fu, fuSnap, fuPatch, polls>>

ClearedNever(timer) == timer

\* if (workingTimer) clearTimeout(workingTimer);
Cleared(timer) == IF timer = "armed" THEN "cleared" ELSE timer

\* A handler that never backstops the Working notice.
BackstopNever(notified) == <<>>

\* The Working notice sent before a Done or In-progress notice when none was sent.
Backstop(notified) == IF notified THEN <<>> ELSE <<"working">>

\* An ok branch that always backstops the Working notice.
DoneNoticesBackstopped(notified, elapsedClass) == Backstop(notified) \o <<"done">>

\* The notifications of the ok branch.
DoneNotices(notified, elapsedClass) ==
  IF ~notified /\ elapsedClass = 0 THEN <<"done">> ELSE Backstop(notified) \o <<"done">>

\* A decision that treats every status but ok as still in progress.
FinalNoticesOkOrProgress(status, notified, elapsedClass) ==
  IF status = "ok" THEN DoneNotices(notified, elapsedClass)
  ELSE Backstop(notified) \o <<"progress">>

\* The notifications of the handler after the primary wait, by wait.status.
FinalNotices(status, notified, elapsedClass) ==
  IF status = "ok" THEN DoneNotices(notified, elapsedClass)
  ELSE IF status = "timeout" THEN Backstop(notified) \o <<"progress">>
  ELSE <<"status">>

\* assistantText || (wait.status === 'timeout' ? 'Still working ...' : 'Done.')
ResponseText(status, text) ==
  IF text # "" THEN text ELSE IF status = "timeout" THEN "stillWorking" ELSE "Done."

\* wait?.status || 'unknown'
StatusOrUnknown(status) == IF status = "none" THEN "unknown" ELSE status

\* The handler from the end of the primary wait (and of the history fetch on
\* ok) to its response: state update, log, notifications, follow-up loop.
Finish(i, status, text) ==
  /\ workingTimer' = [workingTimer EXCEPT ![i] = Cleared(@)]
  /\ waitRes' = [waitRes EXCEPT ![i] = status]
  /\ assistantText' = [assistantText EXCEPT ![i] = text]
  /\ upd' = [upd EXCEPT ![i] =
               IF status = "ok" THEN [phase |-> "read", patch |-> Patch("done", now), snap |-> <<>>]
               ELSE IF status = "timeout" THEN [phase |-> "read", patch |-> Patch("running", 0), snap |-> <<>>]
               ELSE @]
  /\ memLog' = [memLog EXCEPT ![i] = @ + 1]
  /\ Notify(i, FinalNotices(status, workingNotified[i], clk[i]))
  /\ fu' = [fu EXCEPT ![i] = IF status = "timeout" THEN "poll" ELSE @]
  /\ polls' = [polls EXCEPT ![i] = IF status = "timeout" THEN 1 ELSE @]
  /\ waitReqs' = [waitReqs EXCEPT ![i] = IF status = "timeout" THEN Append(@, 60000) ELSE @]
  /\ resps' = [resps EXCEPT ![i] =
                 Append(@, Response(200, StatusOrUnknown(status), ResponseText(status, text)))]
  /\ pc' = [pc EXCEPT ![i] = "done"]

\* agent.wait returns ok before the race timer: the history fetch is issued.
WaitReturnOk(i) ==
  /\ pc[i] = "wait"
  /\ workingTimer' = [workingTimer EXCEPT ![i] = Cleared(@)]
  /\ histReqs' = [histReqs EXCEPT ![i] = @ + 1]
  /\ waitRes' = [waitRes EXCEPT ![i] = "ok"]
  /\ pc' = [pc EXCEPT ![i] = "hist"]
  /\ UNCHANGED <<storeVars, clampVars, textVars, notifyVars, agentFilter, checkinVars, flagVars, agentReqs, waitReqs, notifs,
                 writes, memLog, req, resps, flowRunId, workingNotified, clk, assistantText,
                 snap, item, upd, fu, fuSnap, fuPatch, polls>>

\* agent.wait returns another status before the race timer.
WaitReturnOther(i, status) ==
  /\ pc[i] = "wait"
  /\ status # "ok"
  /\ Finish(i, status, "")
  /\ UNCHANGED <<storeVars, clampVars, textVars, agentFilter, checkinVars, flagVars, agentReqs, histReqs, writes,
                 req, flowRunId, workingNotified, clk, snap, item, fuSnap, fuPatch>>

\* A race without its local timer.
RaceTimerNeverDue(elapsedClass) == FALSE

\* setTimeout(() => resolve({ runId, status: 'timeout' }), timeoutMs + 250) is due.
RaceTimerDue(elapsedClass) == elapsedClass = 3

\* The race timer resolves first, with the synthetic status timeout.
LocalTimeout(i) ==
  /\ pc[i] = "wait"
  /\ RaceTimerDue(clk[i])
  /\ Finish(i, "timeout", "")
  /\ UNCHANGED <<storeVars, clampVars, textVars, agentFilter, checkinVars, flagVars, agentReqs, histReqs, writes,
                 req, flowRunId, workingNotified, clk, snap, item, fuSnap, fuPatch>>

\* getLastAssistantText returns on the ok branch.
HistReturn(i, text) ==
  /\ pc[i] = "hist"
  /\ Finish(i, "ok", text)
  /\ UNCHANGED <<storeVars, clampVars, textVars, agentFilter, checkinVars, flagVars, agentReqs, histReqs, writes,
                 req, flowRunId, workingNotified, clk, snap, item, fuSnap, fuPatch>>

\* The un-awaited recordRunUpdate of the handler: its readState ...
UpdRead(i) ==
  /\ upd[i].phase = "read"
  /\ upd' = [upd EXCEPT ![i] = [@ EXCEPT !.phase = "write", !.snap = ReadState(stateFile)]]
  /\ UNCHANGED <<storeVars, clampVars, textVars, notifyVars, agentFilter, checkinVars, flagVars, logVars, req, pc, resps,
                 flowRunId, workingNotified, workingTimer, clk, waitRes, assistantText, snap, item,
                 fu, fuSnap, fuPatch, polls>>

\* ... and its writeState.
UpdWrite(i) ==
  /\ upd[i].phase = "write"
  /\ stateFile' = WriteState(stateFile, RecordRunUpdate(upd[i].snap, flowRunId[i], upd[i].patch, now))
  /\ writes' = [writes EXCEPT ![i] = @ + 1]
  /\ upd' = [upd EXCEPT ![i] = [@ EXCEPT !.phase = "done", !.snap = <<>>]]
  /\ UNCHANGED <<now, calls, lastCall, clampVars, textVars, notifyVars, agentFilter, checkinVars, flagVars, agentReqs, waitReqs,
                 histReqs, notifs, memLog, req, pc, resps, flowRunId, workingNotified,
                 workingTimer, clk, waitRes, assistantText, snap, item, fu, fuSnap, fuPatch, polls>>

\* A follow-up loop polls at most this many times before its 30 minutes are over.
MaxPolls == 2

\* The follow-up loop's agent.wait returns ok: the history fetch is issued.
FuPollOk(i) ==
  /\ fu[i] = "poll"
  /\ histReqs' = [histReqs EXCEPT ![i] = @ + 1]
  /\ fu' = [fu EXCEPT ![i] = "hist"]
  /\ UNCHANGED <<storeVars, clampVars, textVars, notifyVars, agentFilter, checkinVars, flagVars, agentReqs, waitReqs, notifs,
                 writes, memLog, req, pc, resps, flowRunId, workingNotified, workingTimer,
                 clk, waitRes, assistantText, snap, item, upd, fuSnap, fuPatch, polls>>

\* The history fetch returns; recordRunUpdate(done) reads the state file.
FuHistReturn(i) ==
  /\ fu[i] = "hist"
  /\ fuPatch' = [fuPatch EXCEPT ![i] = Patch("done", now)]
  /\ fuSnap' = [fuSnap EXCEPT ![i] = ReadState(stateFile)]
  /\ fu' = [fu EXCEPT ![i] = "updWrite"]
  /\ UNCHANGED <<storeVars, clampVars, textVars, notifyVars, agentFilter, checkinVars, flagVars, logVars, req, pc, resps,
                 flowRunId, workingNotified, workingTimer, clk, waitRes, assistantText, snap, item,
                 upd, polls>>

\* The poll returns a status that is neither ok nor timeout;
\* recordRunUpdate(that status) reads the state file.
FuPollOther(i, status) ==
  /\ fu[i] = "poll"
  /\ status \notin {"ok", "timeout", "none"}
  /\ fuPatch' = [fuPatch EXCEPT ![i] = Patch(status, 0)]
  /\ fuSnap' = [fuSnap EXCEPT ![i] = ReadState(stateFile)]
  /\ fu' = [fu EXCEPT ![i] = "updWrite"]
  /\ UNCHANGED <<storeVars, clampVars, textVars, notifyVars, agentFilter, checkinVars, flagVars, logVars, req, pc, resps,
                 flowRunId, workingNotified, workingTimer, clk, waitRes, assistantText, snap, item,
                 upd, polls>>

\* The poll returns timeout or no status, and the 30 minutes are not over.
FuPollAgain(i) ==
  /\ fu[i] = "poll"
  /\ polls[i] < MaxPolls
  /\ polls' = [polls EXCEPT ![i] = @ + 1]
  /\ waitReqs' = [waitReqs EXCEPT ![i] = Append(@, 60000)]
  /\ UNCHANGED <<storeVars, clampVars, textVars, notifyVars, agentFilter, checkinVars, flagVars, agentReqs, histReqs, notifs,
                 writes, memLog, req, pc, resps, flowRunId, workingNotified, workingTimer,
                 clk, waitRes, assistantText, snap, item, upd, fu, fuSnap, fuPatch>>

\* One exit of the follow-up loop with its notification and no state update.
FuExit(i, at, kind) ==
  /\ fu[i] = at
  /\ Notify(i, <<kind>>)
  /\ fu' = [fu EXCEPT ![i] = "end"]
  /\ UNCHANGED <<storeVars, clampVars, textVars, agentFilter, checkinVars, flagVars, agentReqs, waitReqs, histReqs,
                 writes, memLog, req, pc, resps, flowRunId, workingNotified, workingTimer,
                 clk, waitRes, assistantText, snap, item, upd, fuSnap, fuPatch, polls>>

\* A ceiling exit that also records a status for the run.
FuCeilingRecording(i) ==
  /\ fu[i] = "poll"
  /\ Notify(i, <<"stillRunning">>)
  /\ stateFile' = WriteState(stateFile, RecordRunUpdate(ReadState(stateFile), flowRunId[i], Patch("unknown", 0), now))
  /\ fu' = [fu EXCEPT ![i] = "end"]
  /\ UNCHANGED <<now, calls, lastCall, clampVars, textVars, agentFilter, checkinVars, flagVars, agentReqs, waitReqs, histReqs,
                 writes, memLog, req, pc, resps, flowRunId, workingNotified, workingTimer,
                 clk, waitRes, assistantText, snap, item, upd, fuSnap, fuPatch, polls>>

\* The poll returns timeout or no status, and the 30 minutes are over.
FuCeiling(i) == FuExit(i, "poll", "stillRunning")
\* The poll raises.
FuPollRaise(i) == FuExit(i, "poll", "trackError")
\* The history fetch raises inside the loop's try.
FuHistRaise(i) == FuExit(i, "hist", "trackError")

\* A loop that reports the end of the run as still in progress.
FuNoticeProgress(status) == "progress"

\* The notification after the loop's recordRunUpdate.
FuNotice(status) == IF status = "done" THEN "done" ELSE "status"

\* The loop's recordRunUpdate writes; the loop notifies and ends.
FuUpdWrite(i) ==
  /\ fu[i] = "updWrite"
  /\ stateFile' = WriteState(stateFile, RecordRunUpdate(fuSnap[i], flowRunId[i], fuPatch[i], now))
  /\ writes' = [writes EXCEPT ![i] = @ + 1]
  /\ Notify(i, <<FuNotice(fuPatch[i].status)>>)
  /\ fuSnap' = [fuSnap EXCEPT ![i] = <<>>]
  /\ fu' = [fu EXCEPT ![i] = "end"]
  /\ UNCHANGED <<now, calls, lastCall, clampVars, textVars, agentFilter, checkinVars, flagVars, agentReqs, waitReqs,
                 histReqs, memLog, req, pc, resps, flowRunId, workingNotified, workingTimer,
                 clk, waitRes, assistantText, snap, item, upd, fuPatch, polls>>

(***************************************************************************)
(* The status query                                                        *)
(***************************************************************************)

\* (state.runs || []).find((r) => r?.status === 'running')
FirstRunning(runs) ==
  IF \E k \in 1..Len(runs) : runs[k].status = "running"
  THEN runs[CHOOSE k \in 1..Len(runs) :
              /\ runs[k].status = "running"
              /\ \A j \in 1..(k - 1) : runs[j].status # "running"]
  ELSE NoItem

\* The record a status query without run id reports on: the newest running
\* record, else the newest record, else none.
PickItem(runs) ==
  IF FirstRunning(runs) # NoItem THEN FirstRunning(runs)
  ELSE IF Len(runs) > 0 THEN runs[1]
  ELSE NoItem

\* isDone = polled?.status === 'ok' || item.status === 'done'
IsDone(polled, it) == polled = "ok" \/ it.status = "done"

QueryStatusPollFirst(polled, it) ==
  IF IsDone(polled, it) THEN "done"
  ELSE IF polled \notin {"none", "null"} THEN polled
  ELSE IF it.status # "" THEN it.status
  ELSE "running"

\* isDone ? 'done' : (item.status || polled?.status || 'running')
QueryStatus(polled, it) ==
  IF IsDone(polled, it) THEN "done"
  ELSE IF it.status # "" THEN it.status
  ELSE IF polled \notin {"none", "null"} THEN polled
  ELSE "running"

\* A check that never finds the store empty.
NoJobsNever(it) == FALSE

\* if (!item?.runId)
NoJobs(it) == it.runId = 0

\* readState returns: no record gives no_jobs, else the 1 s poll is issued.
SqRead(i) ==
  LET it == PickItem(ReadState(stateFile)) IN
  /\ pc[i] = "sqRead"
  /\ IF NoJobs(it)
     THEN /\ resps' = [resps EXCEPT ![i] = Append(@, Response(200, "no_jobs", "noJobs"))]
          /\ pc' = [pc EXCEPT ![i] = "done"]
          /\ UNCHANGED <<item, waitReqs>>
     ELSE /\ item' = [item EXCEPT ![i] = it]
          /\ waitReqs' = [waitReqs EXCEPT ![i] = Append(@, 1000)]
          /\ pc' = [pc EXCEPT ![i] = "sqPoll"]
          /\ UNCHANGED resps
  /\ UNCHANGED <<storeVars, clampVars, textVars, notifyVars, agentFilter, checkinVars, flagVars, agentReqs, histReqs, notifs,
                 writes, memLog, req, flowRunId, workingNotified, workingTimer, clk,
                 waitRes, assistantText, snap, upd, fu, fuSnap, fuPatch, polls>>

\* The poll returns (polled: a status, "none" for a reply without status)
\* or raises (polled = "null").
SqPoll(i, polled) ==
  /\ pc[i] = "sqPoll"
  /\ IF IsDone(polled, item[i])
     THEN /\ histReqs' = [histReqs EXCEPT ![i] = @ + 1]
          /\ pc' = [pc EXCEPT ![i] = "sqHist"]
          /\ UNCHANGED resps
     ELSE /\ resps' = [resps EXCEPT ![i] =
                         Append(@, Response(200, QueryStatus(polled, item[i]), "statusLine"))]
          /\ pc' = [pc EXCEPT ![i] = "done"]
          /\ UNCHANGED histReqs
  /\ waitRes' = [waitRes EXCEPT ![i] = polled]
  /\ UNCHANGED <<storeVars, clampVars, textVars, notifyVars, agentFilter, checkinVars, flagVars, agentReqs, waitReqs, notifs,
                 writes, memLog, req, flowRunId, workingNotified, workingTimer, clk,
                 assistantText, snap, item, upd, fu, fuSnap, fuPatch, polls>>

\* The history fetch returns; recordRunUpdate(done) reads the state file.
SqHistReturn(i, text) ==
  /\ pc[i] = "sqHist"
  /\ assistantText' = [assistantText EXCEPT ![i] = text]
  /\ snap' = [snap EXCEPT ![i] = ReadState(stateFile)]
  /\ pc' = [pc EXCEPT ![i] = "sqWrite"]
  /\ UNCHANGED <<storeVars, clampVars, textVars, notifyVars, agentFilter, checkinVars, flagVars, logVars, req, resps, flowRunId,
                 workingNotified, workingTimer, clk, waitRes, item, upd, fu, fuSnap, fuPatch, polls>>

\* recordRunUpdate writes; the handler responds.
SqWritten(i) ==
  /\ stateFile' = WriteState(stateFile, RecordRunUpdate(snap[i], item[i].runId, Patch("done", now), now))
  /\ writes' = [writes EXCEPT ![i] = @ + 1]
  /\ snap' = [snap EXCEPT ![i] = <<>>]
  /\ resps' = [resps EXCEPT ![i] = Append(@, Response(200, "done", "statusLine"))]
  /\ pc' = [pc EXCEPT ![i] = "done"]
  /\ UNCHANGED <<now, calls, lastCall, clampVars, textVars, notifyVars, agentFilter, checkinVars, flagVars, agentReqs, waitReqs,
                 histReqs, notifs, memLog, req, flowRunId, workingNotified, workingTimer,
                 clk, waitRes, assistantText, item, upd, fu, fuSnap, fuPatch, polls>>

SqWrite(i) ==
  /\ pc[i] = "sqWrite"
  /\ IF WriteEscapes(stateFile) THEN Raise(i, "sqWrite") ELSE SqWritten(i)

(***************************************************************************)
(* Specification of the status-query lookup: one message and one store,    *)
(* looked up                                                               *)
(***************************************************************************)

HexDigits ==
  {"0", "1", "2", "3", "4", "5", "6", "7", "8", "9", "a", "b", "c", "d", "e", "f",
   "A", "B", "C", "D", "E", "F"}

\* \w of a regular expression
WordChars ==
  DOMAIN Capitals \cup { Capitals[c] : c \in DOMAIN Capitals } \cup HexDigits \cup {"_"}

\* n hexadecimal digits of a pattern
Hex(n) == [k \in 1..n |-> "h"]

\* [0-9a-f]{8}-[0-9a-f]{4}-[0-9a-f]{4}-[0-9a-f]{4}-[0-9a-f]{12}, flag i
UuidPattern == Hex(8) \o <<"-">> \o Hex(4) \o <<"-">> \o Hex(4) \o <<"-">> \o Hex(4) \o <<"-">> \o Hex(12)

\* #([0-9a-f]{8}), flag i
ShortPattern == <<"#">> \o Hex(8)

\* The pattern matches the text at position pos.
Fits(text, pos, pat) ==
  /\ pos + Len(pat) - 1 <= Len(text)
  /\ \A k \in 1..Len(pat) :
       IF pat[k] = "h" THEN text[pos + k - 1] \in HexDigits ELSE text[pos + k - 1] = pat[k]

\* \b after the word character at position pos
BoundaryAfter(text, pos) == pos = Len(text) \/ text[pos + 1] \notin WordChars

\* String.prototype.match: the first position where the pattern matches,
\* followed by \b if asked (0: no match).
MatchAt(text, pat, bounded) ==
  LET hits == { q \in 1..Len(text) :
                  Fits(text, q, pat) /\ (bounded => BoundaryAfter(text, q + Len(pat) - 1)) }
  IN IF hits = {} THEN 0 ELSE CHOOSE q \in hits : \A r \in hits : q <= r

\* extractRunIdFromText
extractRunIdFromText(text) ==
  LET uuid == MatchAt(text, UuidPattern, FALSE)
      short == MatchAt(text, ShortPattern, TRUE)
  IN IF uuid # 0 THEN SubSeq(text, uuid, uuid + Len(UuidPattern) - 1)
     ELSE IF short # 0 THEN SubSeq(text, short + 1, short + 8)
     ELSE <<>>

\* shortRun
shortRun(runId) == LET t == Trim(runId) IN IF Len(t) > 10 THEN SubSeq(t, 1, 8) ELSE t

\* The run ids of the model as the gateway writes them: runs 1 and 2 have
\* the same first eight characters.
RunId1 ==
  <<"a", "1", "b", "2", "c", "3", "d", "4", "-", "1", "1", "1", "1", "-", "4", "1", "1",
  "1", "-", "8", "1", "1", "1", "-", "1", "1", "1", "1", "1", "1", "1", "1", "1", "1",
  "1", "1">>
RunId2 ==
  <<"a", "1", "b", "2", "c", "3", "d", "4", "-", "2", "2", "2", "2", "-", "4", "2", "2",
  "2", "-", "8", "2", "2", "2", "-", "2", "2", "2", "2", "2", "2", "2", "2", "2", "2",
  "2", "2">>
RunId3 ==
  <<"0", "b", "a", "d", "c", "a", "f", "e", "-", "3", "3", "3", "3", "-", "4", "3", "3",
  "3", "-", "8", "3", "3", "3", "-", "3", "3", "3", "3", "3", "3", "3", "3", "3", "3",
  "3", "3">>

RunIdText(runId) ==
  CASE runId = 1 -> RunId1 [] runId = 2 -> RunId2 [] runId = 3 -> RunId3 [] OTHER -> <<>>

\* A lookup that ignores the identifier of the message.
FindWantedNever(runs, wantRun) == NoItem

\* state.runs.find((r) => r?.runId === wantRun || shortRun(r?.runId) === wantRun)
FindWanted(runs, wantRun) ==
  LET hits == { k \in 1..Len(runs) :
                  RunIdText(runs[k].runId) = wantRun \/ shortRun(RunIdText(runs[k].runId)) = wantRun }
  IN IF hits = {} THEN NoItem ELSE runs[CHOOSE k \in hits : \A j \in hits : k <= j]

PickItemForNamedOnly(runs, message) ==
  LET wantRun == extractRunIdFromText(message)
  IN IF wantRun # <<>> THEN FindWanted(runs, wantRun) ELSE PickItem(runs)

\* The record a status query reports on (lines 514-523).
PickItemFor(runs, message) ==
  LET wantRun == extractRunIdFromText(message)
      wanted == IF wantRun # <<>> THEN FindWanted(runs, wantRun) ELSE NoItem
  IN IF wanted # NoItem THEN wanted ELSE PickItem(runs)

\* What follows "check status" in the messages looked up: nothing, a short
\* form (of runs 1 and 2, of run 3, of run 3 in capitals, of no run, with a
\* ninth digit) or a full identifier (of run 2, of run 3 in capitals).
PickTails ==
  { <<>>,
    <<" ", "#">> \o shortRun(RunId1),
    <<" ", "#">> \o shortRun(RunId3),
    <<" ", "#">> \o ToUpperCase(shortRun(RunId3)),
    <<" ", "#", "d", "e", "a", "d", "b", "e", "e", "f">>,
    <<" ", "#">> \o shortRun(RunId3) \o <<"9">>,
    <<" ", "f", "o", "r", " ">> \o RunId2 \o <<" ", "p", "l", "e", "a", "s", "e">>,
    <<" ">> \o ToUpperCase(RunId3) }

PickStatuses == {"running", "done", "error"}

\* The stores looked up: up to MaxPickRuns records of distinct runs.
MaxPickRuns == 3
PickStores ==
  UNION { { r \in [1..n -> [runId : 1..3, status : PickStatuses]] :
              \A j, k \in 1..n : j # k => r[j].runId # r[k].runId } : n \in 0..MaxPickRuns }

\* A record of the store as recordRunStart and recordRunUpdate leave it.
PickRecord(r) ==
  [runId |-> r.runId, status |-> r.status, startedAtMs |-> 1, updatedAtMs |-> 1,
   completedAtMs |-> IF r.status = "done" THEN 1 ELSE 0]

InitPick ==
  /\ msgBase = LitCheckStatus
  /\ \E tail \in PickTails : msgText = LitCheckStatus \o tail
  /\ msgIsStatus = ""
  /\ ChunkIdle
  /\ now = 1
  /\ \E st \in PickStores :
       stateFile = [kind |-> "ok", runs |-> [k \in 1..Len(st) |-> PickRecord(st[k])]]
  /\ calls = 0
  /\ lastCall = [op |-> "none", runId |-> 0]
  /\ ClampIdle /\ FlagsIdle /\ FlowsIdle

\* The handler reads the state file and looks the record up.
PickApply ==
  /\ msgIsStatus = "yes"
  /\ pc[1] = "new"
  /\ item' = [item EXCEPT ![1] = PickItemFor(ReadState(stateFile), msgText)]
  /\ pc' = [pc EXCEPT ![1] = "sqPoll"]
  /\ UNCHANGED <<storeVars, clampVars, textVars, notifyVars, agentFilter, checkinVars, flagVars, logVars, req, resps,
                 flowRunId, workingNotified, workingTimer, clk, waitRes, assistantText, snap, upd,
                 fu, fuSnap, fuPatch, polls>>

NextPick == Classify \/ PickApply

SpecPick == InitPick /\ [][NextPick]_vars

(***************************************************************************)
(* Specification of the bridge                                             *)
(***************************************************************************)

Init ==
  /\ now = 1
  /\ stateFile \in FreshFiles
  /\ calls = 0
  /\ lastCall = [op |-> "none", runId |-> 0]
  /\ ClampIdle /\ TextIdle
  /\ notifyCfg = DefaultCfg
  /\ agentFilter \in BOOLEAN
  /\ CheckinIdle
  /\ callOngoing = FALSE
  /\ activeCallId = ""
  /\ lastCallStartedAtMs = 0
  /\ FlowsIdle

\* The requests of this specification: instructions, status queries and the
\* call events of one call of the configured agent.
FlowRequests ==
  { r \in Requests : Route(r) \in {"status", "dispatch"} }
  \cup { Request("POST", "good", "json", "/retell/webhook", e, "c1", "iris", "", Absent) :
           e \in {"call_started", "call_ended"} }

\* This specification dispatches one instruction; the other handler serves
\* status queries and call events while it runs.
OneInstruction == \A j \in Slots : req[j].msg # "instr"

Next ==
  \E i \in Slots :
    \/ \E r \in FlowRequests : ArriveWebhook(i, r)
    \/ \E r \in FlowRequests : ArriveStatus(i, r)
    \/ \E r \in FlowRequests : OneInstruction /\ ArriveDispatch(i, r)
    \/ AgentAck(i)
    \/ AgentRaise(i)
    \/ RsWrite(i)
    \/ Tick(i)
    \/ WorkingTimerFire(i)
    \/ WaitReturnOk(i)
    \/ \E s \in WaitStatuses : WaitReturnOther(i, s)
    \/ WaitRaise(i)
    \/ LocalTimeout(i)
    \/ \E t \in Texts : HistReturn(i, t)
    \/ HistRaise(i)
    \/ UpdRead(i)
    \/ UpdWrite(i)
    \/ FuPollOk(i)
    \/ FuHistReturn(i)
    \/ FuHistRaise(i)
    \/ \E s \in WaitStatuses : FuPollOther(i, s)
    \/ FuPollAgain(i)
    \/ FuCeiling(i)
    \/ FuPollRaise(i)
    \/ FuUpdWrite(i)
    \/ SqRead(i)
    \/ \E s \in WaitStatuses \cup {"null"} : SqPoll(i, s)
    \/ \E t \in Texts : SqHistReturn(i, t)
    \/ SqHistRaise(i)
    \/ SqWrite(i)

Spec == Init /\ [][Next]_vars

\* The bridge with its timers: time passes and a timer that is due and not
\* cleared runs its callback. Nothing is assumed of the collaborators.
SpecTimers ==
  /\ Init /\ [][Next]_vars
  /\ \A i \in Slots : WF_vars(Tick(i)) /\ WF_vars(LocalTimeout(i)) /\ WF_vars(WorkingTimerFire(i))

\* A step of the follow-up loop of handler i.
FuStep(i) ==
  \/ FuPollOk(i)
  \/ FuHistReturn(i)
  \/ FuHistRaise(i)
  \/ \E s \in WaitStatuses : FuPollOther(i, s)
  \/ FuPollAgain(i)
  \/ FuCeiling(i)
  \/ FuPollRaise(i)
  \/ FuUpdWrite(i)

\* The bridge with a backend that settles every request of a follow-up
\* loop: each agent.wait poll (asked to wait 60 s at most), history fetch
\* and state-file access of the loop returns or raises, and the loop goes on.
SpecFollowUp ==
  /\ Init /\ [][Next]_vars
  /\ \A i \in Slots : WF_vars(FuStep(i))

(***************************************************************************)
(* The collaborator's answers to sessions.list and send                    *)
(***************************************************************************)

\* A message is sent in this many parts at most.
MaxChunks == 2

\* What the answers leave alone.
TaskFrame ==
  UNCHANGED <<storeVars, clampVars, textVars, notifyCfg, agentFilter, checkinVars, flagVars, flowVars, logVars>>

\* An outstanding call fails and its error reaches the caller.
CaughtNot(task) == [task EXCEPT !.phase = "off", !.result = "escaped"]

\* catch (err) { console.error('status_notify_failed', err); }
Caught(task) == [task EXCEPT !.phase = "off", !.result = "logged"]

\* sessions.list returns, with or without an address for the session.
ListReply(i, k, found) ==
  /\ k \in 1..Len(ntask[i])
  /\ ntask[i][k].phase = "list"
  /\ cachedNotifyTarget' = IF found THEN "session" ELSE "null"
  /\ cachedNotifyTargetAtMs' = ntask[i][k].at
  /\ ntask' = [ntask EXCEPT ![i][k] =
                 IF found THEN [@ EXCEPT !.phase = "send", !.sent = 1, !.stored = now]
                 ELSE [@ EXCEPT !.phase = "off", !.result = "none"]]
  /\ sendReqs' = IF found THEN sendReqs + 1 ELSE sendReqs
  /\ UNCHANGED listReqs
  /\ TaskFrame

\* sessions.list raises.
ListRaise(i, k) ==
  /\ k \in 1..Len(ntask[i])
  /\ ntask[i][k].phase = "list"
  /\ ntask' = [ntask EXCEPT ![i][k] = Caught(@)]
  /\ UNCHANGED <<cachedNotifyTarget, cachedNotifyTargetAtMs, listReqs, sendReqs>>
  /\ TaskFrame

\* A send returns; the next part, if there is one, is sent.
SendReply(i, k, more) ==
  /\ k \in 1..Len(ntask[i])
  /\ ntask[i][k].phase = "send"
  /\ more => ntask[i][k].sent < MaxChunks
  /\ ntask' = [ntask EXCEPT ![i][k] =
                 IF more THEN [@ EXCEPT !.sent = @ + 1]
                 ELSE [@ EXCEPT !.phase = "off", !.result = "sent"]]
  /\ sendReqs' = IF more THEN sendReqs + 1 ELSE sendReqs
  /\ UNCHANGED <<cachedNotifyTarget, cachedNotifyTargetAtMs, listReqs>>
  /\ TaskFrame

\* A send raises.
SendRaise(i, k) ==
  /\ k \in 1..Len(ntask[i])
  /\ ntask[i][k].phase = "send"
  /\ ntask' = [ntask EXCEPT ![i][k] = Caught(@)]
  /\ UNCHANGED <<cachedNotifyTarget, cachedNotifyTargetAtMs, listReqs, sendReqs>>
  /\ TaskFrame

\* A rejection of a promise nobody awaits ends the process.
ProcessAlive ==
  \A i \in Slots : \A k \in 1..Len(ntask[i]) : ntask[i][k].result # "escaped"

(***************************************************************************)
(* Specification of the notification target: calls of                      *)
(* sendStatusNotification as time passes                                   *)
(***************************************************************************)

MaxNotifyCalls == 3
MaxNowMs == 90001

\* The passing of time between two calls.
ElapseMs == {30000, 59999}

InitResolve ==
  /\ now = 1
  /\ stateFile = [kind |-> "ok", runs |-> <<>>]
  /\ calls = 0
  /\ lastCall = [op |-> "none", runId |-> 0]
  /\ ClampIdle /\ TextIdle
  /\ notifyCfg \in NotifyCfgs
  /\ agentFilter = FALSE
  /\ CheckinIdle
  /\ callOngoing = FALSE
  /\ activeCallId = ""
  /\ lastCallStartedAtMs = 0
  /\ FlowsIdle

NotifyCall ==
  /\ Len(notifs[1]) < MaxNotifyCalls
  /\ Notify(1, <<"working">>)
  /\ UNCHANGED <<storeVars, clampVars, textVars, agentFilter, checkinVars, flagVars, flowVars,
                 agentReqs, waitReqs, histReqs, writes, memLog>>

Elapse ==
  /\ \E d \in ElapseMs : now + d <= MaxNowMs /\ now' = now + d
  /\ UNCHANGED <<stateFile, calls, lastCall, clampVars, textVars, notifyVars, agentFilter, checkinVars,
                 flagVars, flowVars, logVars>>

NextResolve ==
  \/ NotifyCall
  \/ Elapse
  \/ \E k \in 1..MaxNotifyCalls :
       \/ \E found \in BOOLEAN : ListReply(1, k, found)
       \/ ListRaise(1, k)
       \/ \E more \in BOOLEAN : SendReply(1, k, more)
       \/ SendRaise(1, k)

SpecResolve == InitResolve /\ [][NextResolve]_vars

(***************************************************************************)
(* Specification of the bridge with its notification path: the handlers    *)
(* and the collaborator's answers to sessions.list and send                *)
(***************************************************************************)

InitNotify ==
  /\ now = 1
  /\ stateFile = [kind |-> "ok", runs |-> <<>>]
  /\ calls = 0
  /\ lastCall = [op |-> "none", runId |-> 0]
  /\ ClampIdle /\ TextIdle
  /\ notifyCfg \in NotifyCfgs
  /\ agentFilter = FALSE
  /\ CheckinIdle
  /\ callOngoing = FALSE
  /\ activeCallId = ""
  /\ lastCallStartedAtMs = 0
  /\ FlowsIdle

\* An answer to an outstanding sessions.list or send request of handler i.
NotifyStep(i) ==
  \E k \in 1..Len(ntask[i]) :
    \/ \E found \in BOOLEAN : ListReply(i, k, found)
    \/ ListRaise(i, k)
    \/ \E more \in BOOLEAN : SendReply(i, k, more)
    \/ SendRaise(i, k)


\* A step of handler i on the way to its response.
Primary(i) ==
  \/ AgentAck(i)
  \/ AgentRaise(i)
  \/ RsWrite(i)
  \/ Tick(i)
  \/ WaitReturnOk(i)
  \/ \E s \in WaitStatuses : WaitReturnOther(i, s)
  \/ WaitRaise(i)
  \/ LocalTimeout(i)
  \/ \E t \in Texts : HistReturn(i, t)
  \/ HistRaise(i)
  \/ SqRead(i)
  \/ \E s \in WaitStatuses \cup {"null"} : SqPoll(i, s)
  \/ \E t \in Texts : SqHistReturn(i, t)
  \/ SqHistRaise(i)
  \/ SqWrite(i)

\* Handler 1 serves a status query or an instruction up to its response,
\* and its notification requests are answered or not; handler 2 serves a
\* call event, whose notification request stays unanswered.
NextNotify ==
  /\ ProcessAlive
  /\ \/ \E r \in FlowRequests : ArriveWebhook(2, r)
     \/ \E r \in FlowRequests : ArriveStatus(1, r)
     \/ \E r \in FlowRequests : ArriveDispatch(1, r)
     \/ Primary(1)
     \/ WorkingTimerFire(1)
     \/ NotifyStep(1)

\* The agent, agent.wait, history and state-file requests of a handler
\* settle and its timers run; nothing is assumed of sessions.list and send,
\* which may return, raise or stay unanswered.
SpecNotify ==
  /\ InitNotify /\ [][NextNotify]_vars
  /\ WF_vars(ProcessAlive /\ Primary(1))

(***************************************************************************)
(* Specification of the bridge on a failing state file                     *)
(***************************************************************************)

InitIO ==
  /\ now = 1
  /\ stateFile \in FreshFiles \cup {Unusable}
  /\ calls = 0
  /\ lastCall = [op |-> "none", runId |-> 0]
  /\ ClampIdle /\ TextIdle
  /\ notifyCfg = DefaultCfg
  /\ agentFilter = FALSE
  /\ CheckinIdle
  /\ callOngoing = FALSE
  /\ activeCallId = ""
  /\ lastCallStartedAtMs = 0
  /\ FlowsIdle

\* The bridge of Spec, on any state file; the agent, agent.wait and history
\* requests of a handler settle and its timers run.
SpecIO ==
  /\ InitIO /\ [][Next]_vars
  /\ \A i \in Slots : WF_vars(Primary(i))

(***************************************************************************)
(* Specification of the bridge on a state file a former process left       *)
(***************************************************************************)

\* A record of a finished run.
FinishedRun(runId) ==
  [runId |-> runId, status |-> "done", startedAtMs |-> 1, updatedAtMs |-> 1, completedAtMs |-> 1]

\* The files left: no runs, or three finished runs, two of them with the
\* ids the gateway gives the runs dispatched now.
LeftFiles ==
  { [kind |-> "ok", runs |-> <<>>],
    [kind |-> "ok", runs |-> <<FinishedRun(3), FinishedRun(1), FinishedRun(2)>>] }

InitLeft ==
  /\ now = 1
  /\ stateFile \in LeftFiles
  /\ calls = 0
  /\ lastCall = [op |-> "none", runId |-> 0]
  /\ ClampIdle /\ TextIdle
  /\ notifyCfg = DefaultCfg
  /\ agentFilter = FALSE
  /\ CheckinIdle
  /\ callOngoing = FALSE
  /\ activeCallId = ""
  /\ lastCallStartedAtMs = 0
  /\ FlowsIdle

SpecLeft == InitLeft /\ [][Next]_vars

(***************************************************************************)
(* Specification of request admission: any two requests arrive and are     *)
(* served up to their response or their first collaborator request.        *)
(***************************************************************************)

NextGate ==
  \E i \in Slots : \E r \in Requests :
    \/ ArriveReject(i, r)
    \/ ArriveWebhook(i, r)
    \/ ArriveStatus(i, r)
    \/ ArriveDispatch(i, r)

SpecGate == Init /\ [][NextGate]_vars

(***************************************************************************)
(* Properties of the store                                                 *)
(***************************************************************************)

Runs == ReadState(stateFile)

\* C1: after any sequence of recordRunStart and recordRunUpdate calls from an
\* empty or missing state file, no two records of the persisted list have
\* the same runId.
C1_OneRecordPerRunId ==
  \A j, k \in 1..Len(Runs) : j # k => Runs[j].runId # Runs[k].runId

\* Three calls were made for one runId on a store that held nothing, the last
\* of them a recordRunStart, and the store holds the one record of that run.
C1_Witness ==
  /\ calls = 3
  /\ Len(Runs) = 1
  /\ lastCall.op = "start"
  /\ Runs[1].status = "running"

\* C2: the persisted list never holds more than Cap (50) records, and a
\* recordRunStart of a run the full list does not hold drops the record at
\* the tail and keeps the others in order behind the new record.
C2_AtMostCapTailEvicted ==
  /\ [](Len(Runs) <= Cap)
  /\ [][ (/\ lastCall'.op = "start"
          /\ calls' = calls + 1
          /\ Len(Runs) = Cap
          /\ ~HasRun(Runs, lastCall'.runId))
         => (/\ Len(ReadState(stateFile')) = Cap
             /\ ReadState(stateFile')[1].runId = lastCall'.runId
             /\ \A k \in 1..(Cap - 1) : ReadState(stateFile')[k + 1] = Runs[k]
             /\ ~HasRun(ReadState(stateFile'), Runs[Cap].runId)) ]_vars

\* The 51st distinct run was started: the store is full and run 1, the tail
\* of the list before the call, is gone.
C2_Witness ==
  /\ lastCall = [op |-> "start", runId |-> Cap + 1]
  /\ Len(Runs) = Cap
  /\ ~HasRun(Runs, 1)
  /\ HasRun(Runs, 2)

\* A call of recordRunUpdate has just completed.
UpdateCalled == lastCall'.op = "update" /\ calls' = calls + 1

\* C28: recordRunUpdate(runId, patch) on a store that holds the runId
\* changes only that record: its status and, if the patch names it, its
\* completedAtMs take the patch values, updatedAtMs is refreshed, its other
\* fields and its position are kept, and every other record is unchanged; on
\* a store that does not hold the runId it prepends a minimal record built
\* from the patch.
C28_UpdateFrame ==
  [][ UpdateCalled =>
        LET id == lastCall'.runId
            patch == upd'[1].patch
            after == ReadState(stateFile')
        IN IF HasRun(Runs, id)
           THEN /\ Len(after) = Len(Runs)
                /\ \A k \in 1..Len(Runs) :
                     IF Runs[k].runId = id
                     THEN /\ after[k].runId = id
                          /\ after[k].status = patch.status
                          /\ after[k].completedAtMs =
                               IF patch.completedAtMs # 0 THEN patch.completedAtMs
                               ELSE Runs[k].completedAtMs
                          /\ after[k].updatedAtMs = now'
                          /\ after[k].startedAtMs = Runs[k].startedAtMs
                     ELSE after[k] = Runs[k]
           ELSE /\ after[1] = [runId |-> id, status |-> patch.status, startedAtMs |-> 0,
                               updatedAtMs |-> now', completedAtMs |-> patch.completedAtMs]
                /\ \A k \in 1..Min(Len(Runs), Cap - 1) : after[k + 1] = Runs[k] ]_vars

\* The second of two records was updated to done in place: it kept its
\* start time and the record before it is as it was written.
C28_Witness ==
  /\ lastCall = [op |-> "update", runId |-> 1]
  /\ Len(Runs) = 2
  /\ Runs[1].runId # 1 /\ Runs[1].status = "running" /\ Runs[1].updatedAtMs < now
  /\ Runs[2].runId = 1 /\ Runs[2].status = "done"
  /\ Runs[2].startedAtMs = 1 /\ Runs[2].completedAtMs = now /\ Runs[2].updatedAtMs = now

(***************************************************************************)
(* Properties of the clamp                                                 *)
(***************************************************************************)

\* C3: the clamp maps a requested timeoutMs of 0 to 1000 ms, of 100000 to
\* 25000 ms and of 5000 to 5000 ms.
C3_ClampExamples ==
  (tmWait # 0 /\ tmArgs.present) =>
     /\ (tmArgs.val = 0 => tmWait = 1000)
     /\ (tmArgs.val = 100000 => tmWait = 25000)
     /\ (tmArgs.val = 5000 => tmWait = 5000)

\* C20: for every integer or absent timeoutMs the effective wait lies in
\* [1000, 25000] ms and is 12000 ms when timeoutMs is absent, and the local
\* race timer is set to the effective wait plus 250 ms.
C20_ClampRange ==
  tmWait # 0 =>
    /\ 1000 <= tmWait /\ tmWait <= 25000
    /\ (~tmArgs.present => tmWait = 12000)
    /\ tmRace = tmWait + 250

\* The clamp was applied to a negative timeoutMs and gave the lower limit.
C20_Witness == tmArgs.present /\ tmArgs.val < 0 /\ tmWait = 1000 /\ tmRace = 1250

(***************************************************************************)
(* Properties of the handler                                               *)
(***************************************************************************)

Count(seq, x) == Cardinality({ k \in 1..Len(seq) : seq[k] = x })

IsDispatch(i) == req[i].path = "/retell/sync" /\ req[i].msg = "instr"
IsStatusRequest(i) == req[i].path = "/retell/sync" /\ req[i].msg = "status"

\* The persisted status of the run a handler dispatched ("": no record).
StoredStatus(i) ==
  IF HasRun(Runs, flowRunId[i])
  THEN Runs[CHOOSE k \in 1..Len(Runs) : Runs[k].runId = flowRunId[i]].status
  ELSE ""

\* The handler's follow-up loop got ok from a poll, fetched the history and
\* ended, and no state write of the handler is pending.
FollowUpDone(i) ==
  /\ IsDispatch(i) /\ waitRes[i] = "timeout"
  /\ fu[i] = "end" /\ fuPatch[i].status = "done"
  /\ upd[i].phase = "done"

\* C4: when the primary wait times out the response has status timeout, and
\* once a follow-up poll reported ok there is exactly one Done notification
\* for the run and, all state writes of the flow completed, its persisted
\* status is done.
C4_ScenarioB ==
  \A i \in Slots :
    /\ (IsDispatch(i) /\ waitRes[i] = "timeout")
         => resps[i] = <<Response(200, "timeout", "stillWorking")>>
    /\ FollowUpDone(i) => (Count(notifs[i], "done") = 1 /\ StoredStatus(i) = "done")

\* C5: an instruction dispatched while no call is ongoing (the handler set
\* the Working timer instead of notifying at once), whose wait resolves ok
\* with under 1.2 s elapsed at the notification decision, is answered 200 ok
\* with a non-empty text, with exactly one Done notification and no Working
\* notification.
C5_ScenarioA ==
  \A i \in Slots :
    (/\ IsDispatch(i) /\ pc[i] = "done" /\ waitRes[i] = "ok"
     /\ workingTimer[i] # "none"
     /\ clk[i] = 0)
    => /\ Len(resps[i]) = 1
       /\ resps[i][1].code = 200 /\ resps[i][1].status = "ok" /\ resps[i][1].text # ""
       /\ Count(notifs[i], "done") = 1
       /\ Count(notifs[i], "working") = 0

\* The quick run of scenario A has been answered.
C5_Witness ==
  \E i \in Slots :
    /\ IsDispatch(i) /\ pc[i] = "done" /\ waitRes[i] = "ok"
    /\ workingTimer[i] = "cleared" /\ clk[i] = 0
    /\ resps[i] = <<Response(200, "ok", "text")>>
    /\ notifs[i] = <<"done">>

\* C6: a status query starts no work: no `agent` request, no recordRunStart,
\* no notification, no follow-up loop, and at most one agent.wait, of 1000 ms.
C6_StatusQueryStartsNoWork ==
  \A i \in Slots :
    IsStatusRequest(i) =>
      /\ agentReqs[i] = 0
      /\ flowRunId[i] = 0 /\ pc[i] \notin {"agent", "rsWrite", "wait", "hist"}
      /\ notifs[i] = <<>>
      /\ workingTimer[i] = "none"
      /\ fu[i] = "none" /\ upd[i].phase = "none"
      /\ Len(waitReqs[i]) <= 1
      /\ \A k \in 1..Len(waitReqs[i]) : waitReqs[i][k] = 1000

\* A status query polled a run another handler dispatched and was answered.
C6_Witness ==
  \E i \in Slots :
    /\ IsStatusRequest(i) /\ pc[i] = "done"
    /\ waitReqs[i] = <<1000>>
    /\ item[i].runId # 0
    /\ Len(resps[i]) = 1 /\ resps[i][1].status = "running"

\* C7: a status query that finds no run record (the file empty, missing or
\* malformed) is answered 200 no_jobs without a request to the backend and
\* without a write of the store.
C7_ScenarioC ==
  /\ [][ \A i \in Slots :
           (pc[i] = "sqRead" /\ pc'[i] # "sqRead" /\ Runs = <<>>)
           => /\ resps'[i] = <<Response(200, "no_jobs", "noJobs")>>
              /\ pc'[i] = "done"
              /\ UNCHANGED <<stateFile, agentReqs, waitReqs, histReqs, writes, notifs>> ]_vars
  /\ [](\A i \in Slots :
          (Len(resps[i]) > 0 /\ resps[i][1].status = "no_jobs")
          => /\ pc[i] = "done"
             /\ agentReqs[i] = 0 /\ waitReqs[i] = <<>> /\ histReqs[i] = 0 /\ writes[i] = 0)

\* A status query was answered no_jobs on a file that does not parse.
C7_Witness ==
  \E i \in Slots :
    /\ IsStatusRequest(i)
    /\ resps[i] = <<Response(200, "no_jobs", "noJobs")>>
    /\ stateFile.kind = "malformed"

BadToken(i) == req[i].token \in {"bad", "none"}

\* The handler has answered 401 and done nothing else.
Only401(i) ==
  /\ resps[i] = <<Response(401, "unauthorized", "")>>
  /\ pc[i] = "done"
  /\ agentReqs[i] = 0 /\ waitReqs[i] = <<>> /\ histReqs[i] = 0
  /\ notifs[i] = <<>> /\ writes[i] = 0 /\ memLog[i] = 0
  /\ upd[i].phase = "none" /\ fu[i] = "none" /\ workingTimer[i] = "none"

\* C8 as stated: every request with a wrong or missing token, on any route,
\* gets 401 and has no side effect.
C8_BadToken401 == \A i \in Slots : BadToken(i) => Only401(i)

\* C8 amended: every POST request with a wrong or missing token, on any
\* route, gets 401 and has no side effect: no call-session flag changes, no
\* state-file write, no notification, no agent or agent.wait request.
C8_PostBadToken401 ==
  /\ [](\A i \in Slots : (req[i].method = "POST" /\ BadToken(i)) => Only401(i))
  /\ [][ \A i \in Slots :
           (pc[i] = "new" /\ pc'[i] # "new" /\ req'[i].method = "POST"
              /\ req'[i].token \in {"bad", "none"})
           => UNCHANGED <<flagVars, stateFile>> ]_vars

\* A call event without token was refused while a call was ongoing.
C8_Witness ==
  \E i \in Slots :
    /\ req[i].method = "POST" /\ req[i].token = "none"
    /\ req[i].path = "/retell/webhook"
    /\ resps[i] = <<Response(401, "unauthorized", "")>>
    /\ callOngoing

\* The webhook event of handler i is filtered out by the agent-id filter.
Unmatched(r) == r.method = "POST" /\ r.token = "good" /\ r.body = "json"
                  /\ r.path = "/retell/webhook" /\ agentFilter /\ r.agent # "iris"

\* C9: with an agent-id filter configured, a webhook event whose agent id
\* does not match (or is missing) is answered 200 {ok:true}, leaves
\* callOngoing, activeCallId and lastCallStartedAtMs unchanged, sends no
\* notification and writes no log, whatever its event type.
C9_ScenarioD ==
  /\ [](\A i \in Slots :
          Unmatched(req[i]) => /\ resps[i] = <<Response(200, "", "")>>
                               /\ pc[i] = "done"
                               /\ notifs[i] = <<>> /\ memLog[i] = 0)
  /\ [][ \A i \in Slots :
           (pc[i] = "new" /\ pc'[i] # "new" /\ Unmatched(req'[i]))
           => UNCHANGED flagVars ]_vars

\* During a call, a call_ended event for that call but without agent id
\* was answered and ignored.
C9_Witness ==
  \E i \in Slots :
    /\ Unmatched(req[i]) /\ req[i].agent = "" /\ req[i].event = "call_ended"
    /\ callOngoing /\ activeCallId = req[i].callId
    /\ resps[i] = <<Response(200, "", "")>>

\* C10: a /retell/sync request is never answered 500 because a collaborator
\* request (agent, agent.wait, history fetch) failed.
C10_CollaboratorErrorsAre200 ==
  \A i \in Slots :
    req[i].path = "/retell/sync" => \A k \in 1..Len(resps[i]) : resps[i][k].code # 500

\* Some Working notification was attempted before the k-th notification of handler i.
WorkingBefore(i, k) == \E j \in 1..(k - 1) : notifs[i][j] = "working"

\* C13: within one dispatch flow no Working notification is attempted after
\* the Done or the In-progress notification of the run, every In-progress
\* notification has a Working notification attempted before it, and so has
\* the Done notification of a run that took 1.2 s or more.
C13_WorkingFirst ==
  \A i \in Slots : \A k \in 1..Len(notifs[i]) :
    /\ notifs[i][k] \in {"done", "progress"}
         => \A j \in (k + 1)..Len(notifs[i]) : notifs[i][j] # "working"
    /\ notifs[i][k] = "progress" => WorkingBefore(i, k)
    /\ (notifs[i][k] = "done" /\ waitRes[i] = "ok" /\ clk[i] >= 1) => WorkingBefore(i, k)

\* The wait timed out before the Working timer fired: the backstop sent
\* Working, then In-progress, and the follow-up loop sent Done.
C13_Witness ==
  \E i \in Slots :
    /\ notifs[i] = <<"working", "progress", "done">>
    /\ workingTimer[i] = "cleared"

\* The dispatch flow of handler i has nothing left to do: the handler has
\* responded or was caught, no timer is armed, no state update is pending
\* and no follow-up loop is running.
FlowOver(i) ==
  /\ pc[i] \in {"done", "caught"}
  /\ workingTimer[i] # "armed"
  /\ upd[i].phase \in {"none", "done"}
  /\ fu[i] \in {"none", "end"}

\* A final notification: Done, or an error or status notification.
FinalNotified(i) ==
  \E k \in 1..Len(notifs[i]) : notifs[i][k] \in {"done", "status", "trackError", "stillRunning"}

\* C19: a dispatched run (its agent start request returned) whose dispatch
\* flow is over has got a final notification: no execution leaves the run
\* with only a Working or In-progress notification.
C19_FinalNotification ==
  \A i \in Slots : (IsDispatch(i) /\ flowRunId[i] # 0 /\ FlowOver(i)) => FinalNotified(i)

\* C14: the primary wait is bounded. A handler waiting on agent.wait leaves
\* the wait even if agent.wait never returns, and a wait that ends with the
\* status timeout is followed at once by the response 200 timeout.
C14_PrimaryWaitBounded ==
  /\ \A i \in Slots : (pc[i] = "wait") ~> (pc[i] # "wait")
  /\ [][ \A i \in Slots :
           (pc[i] = "wait" /\ pc'[i] # "wait" /\ waitRes'[i] = "timeout")
           => /\ pc'[i] = "done"
              /\ resps'[i] = <<Response(200, "timeout", "stillWorking")>> ]_vars

\* The local timer ended a wait of effective timeout 5000 ms to which
\* agent.wait had given no reply: the handler responded.
C14_Witness ==
  \E i \in Slots :
    /\ IsDispatch(i) /\ pc[i] = "done" /\ clk[i] = 3
    /\ waitRes[i] = "timeout" /\ waitReqs[i][1] = 5000
    /\ resps[i] = <<Response(200, "timeout", "stillWorking")>>

\* The terminal notifications of the follow-up loop sent by handler i.
FuTerminal(i) ==
  Count(notifs[i], "done") + Count(notifs[i], "status")
    + Count(notifs[i], "trackError") + Count(notifs[i], "stillRunning")

StatusExamples ==
  { <<"c", "h", "e", "c", "k", " ", "s", "t", "a", "t", "u", "s">>,
    <<"s", "t", "a", "t", "u", "s">>,
    <<"j", "o", "b", " ", "s", "t", "a", "t", "u", "s", " ", "p", "l", "e", "a", "s", "e">>,
    <<"a", "r", "e", " ", "y", "o", "u", " ", "d", "o", "n", "e", "?">> }

\* C17: "check status", "Status", "job status please" and "are you done?"
\* classify as status queries and "please update the doc" does not, and the
\* class of a message depends neither on its letter case nor on what runs of
\* spaces, tabs and newlines separate and surround its words.
C17_StatusQueryDetection ==
  msgIsStatus # "" =>
    /\ msgBase \in StatusExamples => msgIsStatus = "yes"
    /\ msgBase = <<"p", "l", "e", "a", "s", "e", " ", "u", "p", "d", "a", "t", "e", " ", "t", "h", "e", " ", "d", "o", "c">> => msgIsStatus = "no"
    /\ (msgIsStatus = "yes") <=> isStatusQuery(msgBase)

\* "JOB STATUS PLEASE", its words apart by a carriage return and a newline
\* and with spaces around, was classified as a status query.
C17_Witness ==
  /\ msgIsStatus = "yes"
  /\ msgText = <<" ", "J", "O", "B", "\r", "\n", "S", "T", "A", "T", "U", "S", "\r", "\n", "P", "L", "E", "A", "S", "E", " ">>

\* The chunks one after the other.
RECURSIVE Concat(_)
Concat(parts) == IF parts = <<>> THEN <<>> ELSE Head(parts) \o Concat(Tail(parts))

\* Every chunk is non-empty and, like every payload, at most maxChars long.
ChunksBounded ==
  ctPhase = "done" =>
    /\ \A k \in 1..Len(chunks) : chunks[k] # <<>> /\ Len(chunks[k]) <= ctMax
    /\ \A k \in 1..Len(payloads) : Len(payloads[k]) <= ctMax

\* C18: the chunks chunkText returns, concatenated, are the trimmed input;
\* every chunk is non-empty, and every chunk and every payload is at most
\* maxChars long.
C18_ChunksReconstruct ==
  /\ ctPhase = "done" => Concat(chunks) = Trim(ctIn)
  /\ ChunksBounded

(***************************************************************************)
(* Properties of the notification target                                   *)
(***************************************************************************)

\* C16: when a lookup found no address, the null result is cached for 60 s:
\* a call of resolveNotifyTarget made while a null target is cached for less
\* than 60 s issues no sessions.list request.
C16_NullTargetCached ==
  \A i \in Slots : \A k \in 1..Len(ntask[i]) : ntask[i][k].freshNull => ~ntask[i][k].listed

(***************************************************************************)
(* Properties of the notification path                                     *)
(***************************************************************************)

\* Handler i has a notification request that is still unanswered.
Unanswered(i) == \E k \in 1..Len(ntask[i]) : ntask[i][k].phase # "off"

\* Handler i had a notification request that raised.
Failed(i) == \E k \in 1..Len(ntask[i]) : ntask[i][k].result = "logged"

\* C11: a failing notification path never blocks or fails the primary
\* response. sendStatusNotification never raises to its caller; an answer to
\* sessions.list or send, good or bad, changes neither a handler's position
\* nor its response nor its run id; and every /retell/sync request that was
\* admitted gets its response, whether or not its notification requests are
\* ever answered.
C11_NotifyNeverBlocks ==
  /\ [](\A i \in Slots : \A k \in 1..Len(ntask[i]) : ntask[i][k].result # "escaped")
  /\ [][ (ntask' # ntask /\ notifs' = notifs) => UNCHANGED <<pc, resps, flowRunId, waitRes>> ]_vars
  /\ (pc[1] # "new") ~> (resps[1] # <<>>)

\* An instruction was answered with 200 while one of its notifications had
\* raised and another was still unanswered.
C11_Witness ==
  /\ req[1].msg = "instr"
  /\ resps[1] # <<>> /\ resps[1][1].code = 200
  /\ Failed(1) /\ Unanswered(1)

(***************************************************************************)
(* Properties of the store under failing file access                       *)
(***************************************************************************)

\* C12: state-store failures never abort the calling flow. While the state
\* file cannot be read, every list readState hands out is empty; a handler
\* that awaits recordRunStart or recordRunUpdate goes on to its next step,
\* never to the catch, and a background update finishes; and an instruction
\* admitted while every read and write fails gets its HTTP response.
C12_StoreFailuresSwallowed ==
  /\ [](stateFile.kind # "ok"
        => \A i \in Slots : snap[i] = <<>> /\ upd[i].snap = <<>> /\ fuSnap[i] = <<>>)
  /\ [][ \A i \in Slots :
           /\ (pc[i] \in {"rsWrite", "sqWrite"} /\ pc'[i] # pc[i]) => pc'[i] \in {"wait", "done"}
           /\ (upd[i].phase = "write" /\ upd'[i] # upd[i]) => upd'[i].phase = "done" ]_vars
  /\ \A i \in Slots :
       (stateFile = Unusable /\ req[i].msg = "instr" /\ pc[i] # "new") ~> (resps[i] # <<>>)

\* An instruction was answered 200 after its recordRunStart ran on a file
\* whose every read and write fails.
C12_Witness ==
  \E i \in Slots :
    /\ stateFile = Unusable
    /\ req[i].msg = "instr"
    /\ writes[i] >= 1
    /\ resps[i] # <<>> /\ resps[i][1].code = 200

(***************************************************************************)
(* Properties of the follow-up loop                                        *)
(***************************************************************************)

\* The record of a run in a list of runs (NoItem: none).
RecordOf(runs, runId) ==
  IF HasRun(runs, runId) THEN runs[CHOOSE k \in 1..Len(runs) : runs[k].runId = runId] ELSE NoItem

\* C21: in the follow-up loop a poll that reports ok sets the run record's
\* status to done, with completedAtMs, and then sends one Done notification;
\* a poll that reports another status S, not timeout, sets the record's
\* status to S and then sends one Status notification; a poll that reports
\* timeout or no status is followed by another poll, with no notification
\* and no change of the record.
C21_FollowUpPollOutcomes ==
  [][ \A i \in Slots :
        /\ (fu[i] = "hist" /\ fu'[i] # "hist")
             => (fu'[i] = "updWrite" /\ fuPatch'[i].status = "done" /\ fuPatch'[i].completedAtMs # 0)
        /\ (fu[i] = "poll" /\ fu'[i] = "updWrite")
             => fuPatch'[i].status \notin {"ok", "timeout", "none", "done", ""}
        /\ (fu[i] = "updWrite" /\ fu'[i] = "end")
             => /\ RecordOf(ReadState(stateFile'), flowRunId[i]).status = fuPatch[i].status
                /\ fuPatch[i].status = "done"
                     => RecordOf(ReadState(stateFile'), flowRunId[i]).completedAtMs # 0
                /\ notifs'[i] = Append(notifs[i], IF fuPatch[i].status = "done" THEN "done" ELSE "status")
        /\ (fu[i] = "poll" /\ fu'[i] = "poll" /\ polls'[i] # polls[i])
             => (notifs'[i] = notifs[i] /\ stateFile' = stateFile) ]_vars

\* The follow-up loop of handler i left by its catch or by the 30 minutes.
ExitedUnresolved(i) ==
  /\ fu[i] = "end"
  /\ notifs[i][Len(notifs[i])] \in {"trackError", "stillRunning"}

\* C22: when the follow-up loop exits because a poll raised or the 30
\* minutes passed, the exit writes nothing to the state file, and the run's
\* record, unless a status query has updated it, is left with status running.
C22_UnresolvedExitKeepsRecord ==
  /\ [][ \A i \in Slots :
           (fu[i] \in {"poll", "hist"} /\ fu'[i] = "end")
             => (stateFile' = stateFile /\ writes'[i] = writes[i]) ]_vars
  /\ [](\A i \in Slots :
          (ExitedUnresolved(i) /\ \A j \in Slots \ {i} : writes[j] = 0)
            => RecordOf(Runs, flowRunId[i]).status = "running")

\* A loop left by the 30 minutes after a second poll, all writes of its
\* flow done, with the record still running.
C22_Witness ==
  \E i \in Slots :
    /\ fu[i] = "end" /\ notifs[i][Len(notifs[i])] = "stillRunning"
    /\ polls[i] >= 2
    /\ upd[i].phase = "done"
    /\ RecordOf(Runs, flowRunId[i]).status = "running"

\* The primary wait of handler i returned a status that is neither ok nor
\* timeout, a reply without status included, and the handler has answered.
OtherStatusFinal(i) ==
  /\ IsDispatch(i) /\ pc[i] = "done"
  /\ waitRes[i] \notin {"", "ok", "timeout"}

\* C23: when the primary wait returns a backend status that is neither ok
\* nor timeout the status is final: exactly one Status notification is sent
\* for the run, no Done or In-progress notification, no follow-up loop is
\* started and the dispatch flow issues no agent.wait request beyond the
\* primary one.
C23_OtherStatusFinal ==
  \A i \in Slots :
    OtherStatusFinal(i)
      => /\ Count(notifs[i], "status") = 1
         /\ Count(notifs[i], "done") = 0 /\ Count(notifs[i], "progress") = 0
         /\ fu[i] = "none" /\ polls[i] = 0
         /\ Len(waitReqs[i]) = 1

\* On a call, a primary wait that returned error was answered: Working and
\* one Status notification.
C23_Witness ==
  \E i \in Slots :
    /\ OtherStatusFinal(i) /\ waitRes[i] = "error"
    /\ notifs[i] = <<"working", "status">>

(***************************************************************************)
(* Properties of the Working notification                                  *)
(***************************************************************************)

\* C24: if a call is ongoing when the dispatch reaches the decision, Working
\* is sent at once, in the step that starts the primary wait, and no timer
\* is armed; otherwise nothing is sent and the 1.2 s timer is armed. The
\* timer fires only at 1.2 s or later and only while the primary wait has
\* not completed, and it is no longer armed once the primary wait is over.
C24_WorkingTiming ==
  [][ \A i \in Slots :
        /\ (pc[i] = "rsWrite" /\ pc'[i] = "wait")
             => IF callOngoing
                THEN notifs'[i] = Append(notifs[i], "working") /\ workingTimer'[i] = "none"
                ELSE notifs'[i] = notifs[i] /\ workingTimer'[i] = "armed"
        /\ (workingTimer[i] = "armed" /\ workingTimer'[i] = "fired")
             => (pc[i] = "wait" /\ clk[i] >= 2)
        /\ (pc[i] = "wait" /\ pc'[i] # "wait") => workingTimer'[i] # "armed" ]_vars

\* The calls of sendStatusNotification: handler and position.
Calls == UNION { {i} \X DOMAIN ntask[i] : i \in Slots }

\* C25: within 60 s after a call stored a target with an address in the
\* cache, no call of resolveNotifyTarget issues a sessions.list request; and
\* a cached target with an address changes only when its age has reached
\* 60 s.
C25_TargetCached ==
  /\ [](\A c, d \in Calls :
          LET storing == ntask[c[1]][c[2]]
              later == ntask[d[1]][d[2]]
          IN (storing.stored # 0 /\ later.at > storing.stored
                /\ later.at - storing.stored < CacheTtlMs)
               => ~later.listed)
  /\ [][ (cachedNotifyTarget # "null" /\ now - cachedNotifyTargetAtMs < CacheTtlMs)
           => cachedNotifyTarget' = cachedNotifyTarget ]_vars

(***************************************************************************)
(* Properties of the status-query lookup                                   *)
(***************************************************************************)

PickRuns == ReadState(stateFile)

\* The record k of the store carries the identifier: its full runId or its
\* short form equals it.
Carries(k, id) ==
  RunIdText(PickRuns[k].runId) = id \/ shortRun(RunIdText(PickRuns[k].runId)) = id

\* The identifiers a message can carry: the full identifier or the short
\* form, after "#", of a run.
WrittenIds(message) ==
  { id \in { RunIdText(n) : n \in 1..3 } \cup { shortRun(RunIdText(n)) : n \in 1..3 } :
      \E q \in 1..Len(message) :
        \/ Len(id) > 8 /\ q + Len(id) - 1 <= Len(message) /\ SubSeq(message, q, q + Len(id) - 1) = id
        \/ /\ Len(id) = 8 /\ q + 8 <= Len(message) /\ message[q] = "#"
           /\ SubSeq(message, q + 1, q + 8) = id
           /\ (q + 8 = Len(message) \/ message[q + 9] \notin WordChars) }

\* C26: the record a status query reports on. If the message carries the
\* full identifier of a record, or the eight-character form of one after
\* "#", the first record whose full or short identifier equals it is chosen;
\* with no identifier the newest running record is chosen, else the newest
\* record, else none when the store is empty.
C26_RecordSelection ==
  pc[1] = "sqPoll" =>
    LET ids == WrittenIds(msgText)
        hits == { k \in 1..Len(PickRuns) : \E id \in ids : Carries(k, id) }
        running == { k \in 1..Len(PickRuns) : PickRuns[k].status = "running" }
    IN /\ hits # {} => item[1] = PickRuns[CHOOSE k \in hits : \A j \in hits : k <= j]
       /\ (extractRunIdFromText(msgText) = <<>> /\ running # {})
            => item[1] = PickRuns[CHOOSE k \in running : \A j \in running : k <= j]
       /\ (extractRunIdFromText(msgText) = <<>> /\ running = {} /\ PickRuns # <<>>)
            => item[1] = PickRuns[1]
       /\ (extractRunIdFromText(msgText) = <<>> /\ PickRuns = <<>>) => item[1] = NoItem

\* "check status #a1b2c3d4" chose the second of three records, a finished
\* run, although the first record is running.
C26_Witness ==
  /\ pc[1] = "sqPoll"
  /\ msgText = LitCheckStatus \o <<" ", "#">> \o shortRun(RunId1)
  /\ Len(PickRuns) = 3
  /\ PickRuns[1].runId = 3 /\ PickRuns[1].status = "running"
  /\ item[1] = PickRuns[2] /\ item[1].status = "done"

(***************************************************************************)
(* Properties of the status query                                          *)
(***************************************************************************)

\* The status query of handler i found a record, polled and was answered.
QueryAnswered(i) ==
  /\ IsStatusRequest(i) /\ item[i].runId # 0
  /\ pc[i] \in {"done", "caught"}

\* C27: a status query that finds a record reports status done exactly when
\* its poll returned ok or the stored status is already done, and only then
\* updates the record, to done with completedAtMs; when the poll returns
\* anything else or raises, it writes nothing and reports the stored status.
C27_StatusQueryReport ==
  /\ [](\A i \in Slots :
          QueryAnswered(i) =>
            LET done == waitRes[i] = "ok" \/ item[i].status = "done"
            IN /\ Len(resps[i]) = 1 /\ waitReqs[i] = <<1000>>
               /\ resps[i][1].status = "done" <=> done
               /\ done => writes[i] = 1
               /\ ~done => (writes[i] = 0 /\ resps[i][1].status = item[i].status))
  /\ [][ \A i \in Slots :
           (pc[i] = "sqWrite" /\ pc'[i] # "sqWrite")
             => /\ RecordOf(ReadState(stateFile'), item[i].runId).status = "done"
                /\ RecordOf(ReadState(stateFile'), item[i].runId).completedAtMs # 0 ]_vars

(***************************************************************************)
(* Properties of the start record                                          *)
(***************************************************************************)

\* The records of other runs, in order.
OtherRuns(runs, runId) == LET Other(r) == r.runId # runId IN SelectSeq(runs, Other)

\* C29: after recordRunStart(runId) completes with no writer between its
\* read and its write, the first record of the store has that runId and
\* status running, no other record has the runId, and the other records
\* follow in the order they had; the dispatch flow makes this write before
\* it starts the primary wait, so that it issues no update of a run, done
\* included, before the run's start record is written.
C29_StartWritesFirst ==
  /\ [][ \A i \in Slots :
           (pc[i] = "rsWrite" /\ pc'[i] = "wait" /\ snap[i] = Runs)
             => LET after == ReadState(stateFile')
                IN /\ after[1].runId = flowRunId[i] /\ after[1].status = "running"
                   /\ OtherRuns(after, flowRunId[i]) = Tail(after)
                   /\ Tail(after) = OtherRuns(Runs, flowRunId[i]) ]_vars
  /\ [](\A i \in Slots :
          IsDispatch(i)
            => /\ (pc[i] \in {"wait", "hist"} \/ waitReqs[i] # <<>>) => writes[i] >= 1
               /\ (upd[i].phase # "none" \/ fu[i] # "none") => writes[i] >= 1
               /\ writes[i] = 0 => pc[i] \in {"new", "agent", "rsWrite", "caught"})

\* Run 1 was started on a file that held it as finished, between two other
\* records: it is now first and running, the others follow in their order,
\* and the flow's done update has been written.
C29_Witness ==
  /\ IsDispatch(1) /\ pc[1] = "done" /\ waitRes[1] = "ok" /\ upd[1].phase = "done"
  /\ Len(Runs) = 3
  /\ Runs[1].runId = 1 /\ Runs[1].status = "done"
  /\ Runs[2] = FinishedRun(3) /\ Runs[3] = FinishedRun(2)

(***************************************************************************)
(* Properties of the call-session flag                                     *)
(***************************************************************************)

\* Request r reaches the call lifecycle of the webhook (lines 408-429): an
\* authorized POST /retell/webhook with a JSON body that the agent-id
\* filter lets through.
Lifecycle(r) == /\ r.method = "POST" /\ r.token = "good" /\ r.body = "json"
                /\ r.path = "/retell/webhook"
                /\ ~WebhookIgnored(agentFilter, r.agent)

\* Handler i takes its request in this step.
Arrives(i) == pc[i] = "new" /\ pc'[i] # "new"

\* C30: a call-start event that reaches the call lifecycle sets callOngoing
\* and makes the event's call id the active call id; a call-end event clears
\* both exactly when no active call id is recorded or its call id is the
\* active one, and otherwise leaves both as they are; every other request,
\* and every step that is not the arrival of a request, leaves both as they
\* are.
C30_CallFlagTransitions ==
  /\ [][ \A i \in Slots :
           Arrives(i) =>
             LET r == req'[i]
             IN IF Lifecycle(r) /\ r.event = "call_started"
                  THEN callOngoing' /\ activeCallId' = r.callId
                ELSE IF Lifecycle(r) /\ r.event = "call_ended"
                  THEN IF activeCallId = "" \/ r.callId = activeCallId
                         THEN ~callOngoing' /\ activeCallId' = ""
                         ELSE UNCHANGED <<callOngoing, activeCallId>>
                ELSE UNCHANGED <<callOngoing, activeCallId>> ]_vars
  /\ [][ (\A i \in Slots : ~Arrives(i))
           => UNCHANGED <<callOngoing, activeCallId>> ]_vars

\* A call was started, and a later call-end event for another call id has
\* been processed while the first call is still recorded as ongoing.
C30_Witness ==
  \E i, j \in Slots :
    /\ i < j /\ pc[i] = "done" /\ pc[j] = "done"
    /\ Lifecycle(req[i]) /\ req[i].event = "call_started"
    /\ Lifecycle(req[j]) /\ req[j].event = "call_ended"
    /\ req[i].callId # "" /\ req[j].callId # req[i].callId
    /\ callOngoing /\ activeCallId = req[i].callId

(***************************************************************************)
(* Properties of request admission                                         *)
(***************************************************************************)

\* The handler has answered code/error once and done nothing else.
OnlyReject(i, code, error) ==
  /\ resps[i] = <<Response(code, error, "")>>
  /\ pc[i] = "done"
  /\ agentReqs[i] = 0 /\ waitReqs[i] = <<>> /\ histReqs[i] = 0
  /\ notifs[i] = <<>> /\ writes[i] = 0 /\ memLog[i] = 0
  /\ upd[i].phase = "none" /\ fu[i] = "none" /\ workingTimer[i] = "none"

\* The first client input error of request r in the handler's order, or
\* "none".
InputError(r) ==
  IF r.method # "POST" THEN <<405, "method_not_allowed">>
  ELSE IF r.token # "good" THEN <<401, "unauthorized">>
  ELSE IF r.body # "json" THEN <<400, "invalid_json">>
  ELSE IF r.path \notin {"/retell/webhook", "/retell/sync"} THEN <<404, "not_found">>
  ELSE IF r.path = "/retell/sync" /\ r.msg = "" THEN <<400, "missing_message">>
  ELSE <<0, "none">>

\* C31: client input errors are rejected in the order method (405), token
\* (401), JSON body (400 invalid_json), path (404), message (400
\* missing_message): a request is answered with the first of these that
\* applies to it, and then no agent request is issued, the store is not
\* written, no flag changes and no notification is sent.
C31_InputErrorsInOrder ==
  /\ [](\A i \in Slots :
          (pc[i] # "new" /\ InputError(req[i])[1] # 0)
            => OnlyReject(i, InputError(req[i])[1], InputError(req[i])[2]))
  /\ [][ \A i \in Slots :
           (Arrives(i) /\ InputError(req'[i])[1] # 0)
             => UNCHANGED <<flagVars, stateFile, notifyVars>> ]_vars

\* During a call, an authorized POST with a malformed body on an unknown
\* path was answered 400 invalid_json, and the call is still recorded.
C31_Witness ==
  \E i \in Slots :
    /\ callOngoing /\ activeCallId = "c1"
    /\ req[i].method = "POST" /\ req[i].token = "good" /\ req[i].body = "garbage"
    /\ req[i].path = "/other"
    /\ resps[i] = <<Response(400, "invalid_json", "")>>

(***************************************************************************)
(* Two overlapping dispatches                                              *)
(***************************************************************************)

\* Both handlers serve an instruction; each runs its recordRunStart and,
\* when its wait returns ok, its recordRunUpdate.
InitRace ==
  /\ now = 1
  /\ stateFile = [kind |-> "ok", runs |-> <<>>]
  /\ calls = 0
  /\ lastCall = [op |-> "none", runId |-> 0]
  /\ ClampIdle /\ TextIdle
  /\ notifyCfg = DefaultCfg
  /\ agentFilter = FALSE
  /\ CheckinIdle
  /\ callOngoing = FALSE
  /\ activeCallId = ""
  /\ lastCallStartedAtMs = 0
  /\ FlowsIdle

NextRace ==
  \E i \in Slots :
    \/ \E r \in FlowRequests : ArriveDispatch(i, r)
    \/ AgentAck(i)
    \/ RsWrite(i)
    \/ WaitReturnOk(i)
    \/ \E t \in Texts : HistReturn(i, t)
    \/ UpdRead(i)
    \/ UpdWrite(i)

SpecRace == InitRace /\ [][NextRace]_vars

\* Handler i completes its recordRunStart in this step.
StartWritten(i) == pc[i] = "rsWrite" /\ pc'[i] = "wait"

\* Handler i completes its recordRunUpdate in this step.
UpdateWritten(i) == upd[i].phase = "write" /\ upd'[i].phase = "done"

\* The status stored for runId in runs, "" without a record.
StatusIn(runs, runId) ==
  IF HasRun(runs, runId) THEN RecordOf(runs, runId).status ELSE ""

\* C32: the store is read-modify-written without a lock. Every write puts
\* back what its own earlier read saw, changed for its own run only: after
\* a recordRunStart or recordRunUpdate of one flow completes, the record of
\* the other flow's run is in the store exactly as the writer read it,
\* whatever the other flow wrote in between. An interleaving in which both
\* recordRunStart calls have completed and the store holds one record is
\* reachable (C32_Witness).
C32_UnlockedReadModifyWrite ==
  [][ \A i, j \in Slots :
        (i # j /\ flowRunId[j] # 0) =>
          /\ StartWritten(i) =>
               /\ HasRun(Runs', flowRunId[i])
               /\ StatusIn(Runs', flowRunId[j]) = StatusIn(snap[i], flowRunId[j])
          /\ UpdateWritten(i) =>
               /\ StatusIn(Runs', flowRunId[i]) = upd[i].patch.status
               /\ StatusIn(Runs', flowRunId[j]) = StatusIn(upd[i].snap, flowRunId[j]) ]_vars

\* Both recordRunStart calls have completed, no update has been written
\* yet, and the store holds the record of one run only.
C32_Witness ==
  /\ \A i \in Slots : writes[i] = 1 /\ pc[i] \in {"wait", "hist", "done"}
                        /\ upd[i].phase # "done"
  /\ Len(Runs) = 1

(***************************************************************************)
(* Properties of the /retell/sync response                                 *)
(***************************************************************************)

\* Handler i has finished a /retell/sync request that passed validation.
SyncAnswered(i) == (IsDispatch(i) \/ IsStatusRequest(i)) /\ pc[i] \in {"done", "caught"}

\* A text that reports completion: the assistant's text or 'Done.'.
ReportsCompletion(text) == text \in {"text", "Done."}

\* C33: every /retell/sync request that passes validation is answered with
\* a non-empty text; for an instruction the text reports completion (the
\* assistant's text or 'Done.') only when the response status is ok, and
\* is the still-working text when the status is timeout.
C33_TextDescribesOutcome ==
  \A i \in Slots :
    SyncAnswered(i) =>
      /\ Len(resps[i]) = 1
      /\ resps[i][1].text # ""
      /\ IsDispatch(i) =>
           /\ ReportsCompletion(resps[i][1].text) => resps[i][1].status = "ok"
           /\ resps[i][1].status = "timeout" => resps[i][1].text = "stillWorking"

(***************************************************************************)
(* Properties of the persisted status                                      *)
(***************************************************************************)

\* C34: the status stored for a run never goes back from done to running.
C34_DoneNeverBackToRunning ==
  [][ \A i \in Slots :
        (flowRunId[i] # 0 /\ StatusIn(Runs, flowRunId[i]) = "done")
          => StatusIn(Runs', flowRunId[i]) # "running" ]_vars

(***************************************************************************)
(* Properties of the HTTP responses                                        *)
(***************************************************************************)

\* C35: every request that the handler has finished with got exactly one
\* response, no request ever has more than one, and no second response is
\* attempted: the handler never ends in its catch after a response was
\* written.
C35_ExactlyOneResponse ==
  \A i \in Slots :
    /\ Len(resps[i]) <= 1
    /\ pc[i] \in {"done", "caught", "unhandled"} => Len(resps[i]) = 1
    /\ pc[i] # "unhandled"

(***************************************************************************)
(* Properties of the Working notice                                        *)
(***************************************************************************)

\* C36: a dispatch flow attempts at most one Working notification: the
\* notice sent at once during a call, the notice of the 1.2 s timer and the
\* backstop notice exclude each other, however the timer, the primary wait
\* and the history fetch are timed.
C36_AtMostOneWorking ==
  \A i \in Slots : Count(notifs[i], "working") <= 1

\* Off call the wait returned ok before the timer fired, the history fetch
\* took the flow past 1.2 s, and the backstop sent the only Working notice.
C36_Witness ==
  \E i \in Slots :
    /\ IsDispatch(i) /\ waitRes[i] = "ok" /\ pc[i] = "done"
    /\ workingTimer[i] = "cleared" /\ clk[i] >= 1
    /\ notifs[i] = <<"working", "done">>

(***************************************************************************)
(* Properties of a run whose primary wait returned another status          *)
(***************************************************************************)

\* Handler j has answered a status query about the run of handler i, and
\* its own poll did not return ok.
AskedWithoutOk(j, i) ==
  /\ IsStatusRequest(j) /\ pc[j] = "done"
  /\ flowRunId[i] # 0 /\ item[j].runId = flowRunId[i]
  /\ waitRes[j] # "ok"

\* C37: when the primary wait of a dispatch returned a status that is
\* neither ok nor timeout, the flow wrote the run record once, at the
\* start, and starts no update of it; unless a status query has written
\* the store the record still says running; and a status query about this
\* run whose own poll did not return ok reports running and writes nothing.
C37_OtherStatusKeepsRunning ==
  \A i \in Slots :
    OtherStatusFinal(i) =>
      /\ writes[i] = 1 /\ upd[i].phase = "none" /\ fu[i] = "none"
      /\ (\A j \in Slots : j # i => writes[j] = 0)
           => StatusIn(Runs, flowRunId[i]) = "running"
      /\ \A j \in Slots :
           AskedWithoutOk(j, i)
             => /\ resps[j] = <<Response(200, "running", "statusLine")>>
                /\ writes[j] = 0

\* The primary wait returned error; a status query that arrived after the
\* dispatch and whose poll returned error too has reported running.
C37_Witness ==
  \E i, j \in Slots :
    /\ i < j
    /\ OtherStatusFinal(i) /\ waitRes[i] = "error"
    /\ AskedWithoutOk(j, i) /\ waitRes[j] = "error"
    /\ StatusIn(Runs, flowRunId[i]) = "running"

(***************************************************************************)
(* Properties of a status query that names an unknown run                  *)
(***************************************************************************)

\* The message names a run identifier that no record of the store carries.
NamesUnknownRun ==
  /\ extractRunIdFromText(msgText) # <<>>
  /\ \A k \in 1..Len(PickRuns) : ~Carries(k, extractRunIdFromText(msgText))

\* C38: a status query whose message names a run identifier that matches
\* no stored record is not answered "not found": it reports on the newest
\* running record, else on the newest record (and finds no record only when
\* the store is empty).
C38_UnknownRunFallsBack ==
  (pc[1] = "sqPoll" /\ NamesUnknownRun) =>
    LET running == { k \in 1..Len(PickRuns) : PickRuns[k].status = "running" }
    IN /\ running # {}
            => item[1] = PickRuns[CHOOSE k \in running : \A j \in running : k <= j]
       /\ (running = {} /\ PickRuns # <<>>) => item[1] = PickRuns[1]
       /\ PickRuns = <<>> <=> item[1] = NoItem

\* "check status #deadbeef" names no stored run: the query reports on the
\* second record, the newest running one.
C38_Witness ==
  /\ pc[1] = "sqPoll" /\ NamesUnknownRun
  /\ msgText = LitCheckStatus \o <<" ", "#", "d", "e", "a", "d", "b", "e", "e", "f">>
  /\ Len(PickRuns) = 3
  /\ PickRuns[1].status = "done" /\ PickRuns[2].status = "running"
  /\ item[1] = PickRuns[2]

(***************************************************************************)
(* Specification of the scheduled check-ins: runs of the script, one after *)
(* the other, as the local time passes                                     *)
(***************************************************************************)

MaxRuns == 3
MaxDates == 2

CheckinFiles ==
  { [kind |-> "missing", slots |-> NoSlots], [kind |-> "malformed", slots |-> NoSlots] }

InitCheckin ==
  /\ ckDate = 1 /\ ckAt = 1
  /\ ckFile \in CheckinFiles
  /\ ckPlaced = <<>> /\ ckWrites = 0 /\ ckRuns = 0
  /\ ckLast = [dryRun |-> FALSE, force |-> FALSE]
  /\ now = 1 /\ stateFile = [kind |-> "missing", runs |-> <<>>] /\ calls = 0
  /\ lastCall = [op |-> "none", runId |-> 0]
  /\ ClampIdle /\ TextIdle /\ NotifyIdle /\ FlowsIdle
  /\ agentFilter = FALSE /\ notifyCfg = DefaultCfg
  /\ callOngoing = FALSE /\ activeCallId = "" /\ lastCallStartedAtMs = 0

CheckinFrame ==
  UNCHANGED <<storeVars, clampVars, textVars, notifyVars, agentFilter, flagVars, flowVars, logVars>>

\* One run of the script, from start to exit.
main(args, placedOk, written) ==
  LET state == loadState(ckFile)
      due == { SLOTS[k].key : k \in { j \in 1..Len(SLOTS) :
                 shouldCall(nowParts, SLOTS[j], state, windowMin(args), args.force) } }
      acc == [state |-> state, file |-> ckFile, placed |-> ckPlaced, writes |-> ckWrites,
              going |-> TRUE]
      end == CallDueSlots(1, acc, due, args, nowParts, placedOk, written)
  IN /\ ckRuns < MaxRuns
     /\ ckRuns' = ckRuns + 1
     /\ ckLast' = [dryRun |-> args.dryRun, force |-> args.force]
     /\ ckFile' = end.file
     /\ ckPlaced' = end.placed
     /\ ckWrites' = end.writes
     /\ UNCHANGED <<ckDate, ckAt>>
     /\ CheckinFrame

\* The local time passes to the next instant, or to the next day.
ClockAdvance ==
  /\ IF ckAt < Len(Instants)
       THEN ckAt' = ckAt + 1 /\ ckDate' = ckDate
       ELSE ckDate < MaxDates /\ ckAt' = 1 /\ ckDate' = ckDate + 1
  /\ UNCHANGED <<ckFile, ckPlaced, ckWrites, ckRuns, ckLast>>
  /\ CheckinFrame

NextCheckin ==
  \/ \E args \in CheckinArgs : \E placedOk, written \in BOOLEAN :
       main(args, placedOk, written)
  \/ ClockAdvance

SpecCheckin == InitCheckin /\ [][NextCheckin]_vars

\* The slot of the script's table with this key.
SlotOf(key) == SLOTS[CHOOSE k \in 1..Len(SLOTS) : SLOTS[k].key = key]

\* C39: over runs that follow one another, none of them placing calls with
\* --force, at most one call is placed per slot and local date, and every
\* call is placed in the slot's hour at a minute from the slot's minute to
\* the slot's minute plus windowMin; a run with --dry-run places no call
\* and does not write the state file.
C39_OneCallPerSlotAndDate ==
  /\ [](/\ \A j, k \in 1..Len(ckPlaced) :
              (j < k /\ ckPlaced[j].slot = ckPlaced[k].slot) => ckPlaced[j].date # ckPlaced[k].date
        /\ \A k \in 1..Len(ckPlaced) :
              /\ ckPlaced[k].hour = SlotOf(ckPlaced[k].slot).hour
              /\ ckPlaced[k].minute >= SlotOf(ckPlaced[k].slot).minute
              /\ ckPlaced[k].minute <= SlotOf(ckPlaced[k].slot).minute + ckPlaced[k].window)
  /\ [][ (ckRuns' = ckRuns + 1 /\ ckLast'.dryRun)
           => UNCHANGED <<ckFile, ckPlaced, ckWrites>> ]_vars

====
